---- MODULE Spec2Model ----
(***************************************************************************)
(* A model of fab-api-client: the cursor pagination walker                 *)
(* (get_library_pages), the library aggregation (get_library, Library      *)
(* filters) and the per-asset manifest pipeline (download_manifest,        *)
(* download_manifests) of FabClient and FabAsyncClient.                    *)
(*                                                                         *)
(* Python values are encoded as follows.  An Optional[str] is a record     *)
(* [none, str]: None is [none |-> TRUE, str |-> 0]; a string is            *)
(* [none |-> FALSE, str |-> s] where s = 0 stands for the empty string and *)
(* s > 0 for a non-empty opaque string.  A JSON object key that may be     *)
(* missing, null or a string is a record [kind, str].                      *)
(***************************************************************************)
EXTENDS Integers, Sequences, FiniteSets, TLC

\* ------------------------------------------------------------------ bounds
MaxPages == 3
MaxResults == 2
MaxAssets == 2
MaxFiles == 2
MaxTitleLen == 3
MaxUidLen == 3
MaxCalls == 2
MaxFormats == 2
MaxInfos == 3
\* Tasks that use one client at the same time, requests per task, and calls
\* of close() on the client or on its auth provider.
MaxTasks == 2
MaxSends == 2
MaxCloses == 2

\* ------------------------------------------------------- python primitives
None == [none |-> TRUE, str |-> 0]
Str(s) == [none |-> FALSE, str |-> s]
\* truthiness of an Optional[str]: None and "" are falsy
Truthy(v) == ~v.none /\ v.str # 0

\* dict.get(key) on a JSON key that is missing, null or a string
JsonGet(field) == IF field.kind = "string" THEN Str(field.str) ELSE None

Clients == {"FabClient", "FabAsyncClient"}
SortOrders == {"-createdAt", "title"}

\* ------------------------------------------------- the server's page chain
\* The raw result j of page k: every result of the chain is distinct.
RawResult(k, j) ==
    [uid |-> 10 * k + j,
     status |-> IF (k + j) % 2 = 0 THEN "approved" ELSE "revoked"]

\* The shapes the "cursors" member of a page can take.  Only "next_token"
\* carries a continuation cursor.
TerminalCursorKinds ==
    {"missing", "null", "empty_object", "next_missing", "next_null", "next_empty"}

RawCursors(kind, token) ==
    CASE kind = "missing" -> [kind |-> "missing", next |-> [kind |-> "missing", str |-> 0]]
      [] kind = "null" -> [kind |-> "null", next |-> [kind |-> "missing", str |-> 0]]
      [] kind = "empty_object" -> [kind |-> "empty_object", next |-> [kind |-> "missing", str |-> 0]]
      [] kind = "next_missing" -> [kind |-> "object", next |-> [kind |-> "missing", str |-> 0]]
      [] kind = "next_null" -> [kind |-> "object", next |-> [kind |-> "null", str |-> 0]]
      [] kind = "next_empty" -> [kind |-> "object", next |-> [kind |-> "string", str |-> 0]]
      [] kind = "next_token" -> [kind |-> "object", next |-> [kind |-> "string", str |-> token]]

\* Page k of the chain: n results, a cursors member of the given kind (the
\* continuation cursor of page k is the token of page k + 1) and a top-level
\* "next" member that is present or not.
RawPage(k, n, kind, top) ==
    [results |-> [j \in 1..n |-> RawResult(k, j)],
     cursors |-> RawCursors(kind, k + 1),
     next |-> IF top THEN [kind |-> "string", str |-> k + 1]
                     ELSE [kind |-> "missing", str |-> 0]]

\* The server resolves a request to a page: no cursor is page 1, the token
\* of page k is k.
PageIndex(p) == IF p.cursor.none THEN 1 ELSE p.cursor.str

\* ------------------------------------------------------------ the program
VARIABLES
    client,         \* which client runs: FabClient or FabAsyncClient
    session,        \* the session the client holds: none, open or closed
    lifecycle,      \* the client is constructed, or shut down
    sort_by,        \* the sort_by argument of the call
    server,         \* the chain of raw pages the server holds
    pc,             \* position of get_library / get_library_pages
    params,         \* the params dict of get_library_pages
    page_response,  \* the page yielded last
    all_assets,     \* get_library's accumulator
    library,        \* the Library get_library returned (<<>> before)
    derived,        \* the Library a filter returned last (<<>> before)
    error,          \* the exception raised (type "" before)
    requests,       \* history: params of every request issued
    answers,        \* history: the server's answer to every request
    yielded,        \* history: every page yielded to the caller
    events,         \* history: order of "request", "yield", "sleep"
    assets,         \* the asset list passed to download_manifests
    on_progress,    \* whether a progress callback was passed
    raises_at,      \* the notification at which the callback raises, if any
    bpc,            \* position of download_manifests
    apc,            \* per asset: position of its download_manifest call
    file_uid,       \* per asset: the file uid discovered
    manifest_url,   \* per asset: the manifest URL found
    task_result,    \* per asset: the result of its download_manifest call
    results,        \* the results list of download_manifests
    disk,           \* the manifest files written: path -> size
    alog,           \* history, per asset: notifications, requests, pauses
    aanswers,       \* history, per asset: the answer to each of its requests
    first_completed, \* history: the asset whose call ended first (0: none yet)
    cancelled,      \* history: the assets whose task was cancelled
    call_in,        \* the input of the model-layer call under study
    call_out        \* what that call returned or raised (done FALSE before)

walk_vars == <<sort_by, server, pc, params, page_response, all_assets, library,
               derived, error, requests, answers, yielded, events>>

batch_vars == <<assets, on_progress, raises_at, bpc, apc, file_uid, manifest_url,
                task_result, results, disk, alog, aanswers, first_completed, cancelled>>

call_vars == <<call_in, call_out>>

vars == <<client, session, lifecycle, walk_vars, batch_vars, call_vars>>

NoError == [type |-> "", status_code |-> 0]
Raise(type, code) == [raised |-> TRUE, error |-> [type |-> type, status_code |-> code]]

\* ---------------------------------------------------------- normalization
\* LibrarySearchResponse.from_dict
from_dict(data) ==
    LET cursor_data_truthy == data.cursors.kind = "object"
    IN [results |-> data.results,
        cursors |-> IF cursor_data_truthy
                      THEN [none |-> FALSE, next |-> JsonGet(data.cursors.next)]
                      ELSE [none |-> TRUE, next |-> None],
        next |-> JsonGet(data.next)]

NoPage == [results |-> <<>>, cursors |-> [none |-> TRUE, next |-> None], next |-> None]

\* LibrarySearchResponse.to_assets: one Asset per result, in result order.
\* Of an Asset the aggregation and the filters read uid and status only.
to_assets(page) ==
    [j \in 1..Len(page.results) |->
        [uid |-> page.results[j].uid, status |-> page.results[j].status]]

\* ------------------------------------------------------------ the session
\* The session the client holds after __init__: FabClient takes it from the
\* auth provider, FabAsyncClient sets _session to None.
Construct(cl) == IF cl = "FabClient" THEN "open" ELSE "none"

\* The session a request goes through: FabClient uses self.session as it is;
\* FabAsyncClient._get_session takes the provider's session when it holds
\* none.
get_session(cl, s) == IF cl = "FabAsyncClient" /\ s = "none" THEN "open" ELSE s

close_LeavesOpen(cl, s) == s

\* close(): FabClient closes its session; FabAsyncClient closes the auth
\* provider, which closes the session, and sets _session to None.
close(cl, s) == IF cl = "FabClient" THEN "closed" ELSE "none"

\* ------------------------------------------------------ the library search
Statuses == {200, 304, 401, 403, 404, 429, 500}

\* response.raise_for_status() of requests and of aiohttp: 4xx and 5xx raise
RaiseForStatus_ServerErrorsOnly(status) == status >= 500 /\ status < 600

RaiseForStatus(status) == status >= 400 /\ status < 600

\* What the transport can hand back for a request of page data `data`: a
\* timeout, a connection failure, or a response.  A 200 response carries the
\* JSON page; the body of a 304 is the page, text that is no JSON, or a body
\* that is not of the JSON content type.
TransportAnswers(data) ==
    {[kind |-> k, status |-> 0, body |-> "none", data |-> data] :
        k \in {"timeout", "connection"}}
    \cup {[kind |-> "response", status |-> s, body |-> "json", data |-> data] :
            s \in Statuses}
    \cup {[kind |-> "response", status |-> 304, body |-> b, data |-> data] :
            b \in {"invalid_json", "not_json_type"}}

LibrarySearchOutcome_NotFoundAsAPIError(cl, ans) ==
    IF ans.kind \in {"timeout", "connection"} THEN Raise("FabNetworkError", 0)
    ELSE IF ans.status \in {401, 403} THEN Raise("FabAuthenticationError", 0)
    ELSE IF RaiseForStatus(ans.status) THEN Raise("FabAPIError", ans.status)
    ELSE [raised |-> FALSE, error |-> NoError]

\* The try/except of get_library_pages and the response.json() call.
LibrarySearchOutcome(cl, ans) ==
    IF ans.kind = "timeout" THEN Raise("FabNetworkError", 0)
    ELSE IF ans.kind = "connection" THEN Raise("FabNetworkError", 0)
    ELSE IF ans.status \in {401, 403} THEN Raise("FabAuthenticationError", 0)
    ELSE IF RaiseForStatus(ans.status)
        THEN IF ans.status = 404
               THEN Raise("FabNotFoundError", 0)
               ELSE Raise("FabAPIError", ans.status)
    ELSE IF ans.body = "json" THEN [raised |-> FALSE, error |-> NoError]
    \* aiohttp's json() is inside the try: its ContentTypeError is a
    \* ClientResponseError carrying the response status
    ELSE IF cl = "FabAsyncClient" /\ ans.body = "not_json_type"
        THEN Raise("FabAPIError", ans.status)
    ELSE Raise("JSONDecodeError", 0)

\* ------------------------------------------------------- get_library_pages
HasNextPage_TopLevelNext(page) ==
    (~page.cursors.none /\ Truthy(page.cursors.next)) \/ Truthy(page.next)

HasNextPage_Never(page) == FALSE

\* `page_response.cursors and page_response.cursors.next`
HasNextPage(page) == ~page.cursors.none /\ Truthy(page.cursors.next)

NextParams_KeepFirstCursor(p, page) ==
    IF p.cursor.none THEN [p EXCEPT !.cursor = page.cursors.next] ELSE p

\* params["cursor"] = page_response.cursors.next
NextParams(p, page) == [p EXCEPT !.cursor = page.cursors.next]

Extend_Prepend(acc, more) == more \o acc

\* all_assets.extend(assets)
Extend(acc, more) == acc \o more

\* One iteration of the loop up to the yield: the request, its outcome, the
\* normalization of the page, and get_library's handling of the yielded page.
FetchPage ==
    /\ pc = "fetch"
    /\ PageIndex(params) \in 1..Len(server)
    /\ \E ans \in TransportAnswers(server[PageIndex(params)]) :
        LET out == LibrarySearchOutcome(client, ans)
            page == from_dict(ans.data)
        IN /\ requests' = Append(requests, params)
           /\ answers' = Append(answers, ans)
           /\ IF out.raised
                THEN /\ pc' = "raised"
                     /\ error' = out.error
                     /\ events' = Append(events, "request")
                     /\ UNCHANGED <<page_response, yielded, all_assets>>
                ELSE /\ pc' = "yielded"
                     /\ page_response' = page
                     /\ yielded' = Append(yielded, page)
                     /\ all_assets' = Extend(all_assets, to_assets(page))
                     /\ events' = events \o <<"request", "yield">>
                     /\ UNCHANGED error
    /\ session' = get_session(client, session)
    /\ UNCHANGED <<client, lifecycle, call_vars, sort_by, server, params, library, derived, batch_vars>>

ResumeAfterYield_SleepsAlways ==
    /\ pc = "yielded"
    /\ events' = Append(events, "sleep")
    /\ IF HasNextPage(page_response)
         THEN /\ params' = NextParams(params, page_response)
              /\ pc' = "fetch"
         ELSE /\ pc' = "done"
              /\ UNCHANGED params
    /\ UNCHANGED <<client, session, lifecycle, call_vars, sort_by, server, page_response, all_assets, library,
                   derived, error, requests, answers, yielded, batch_vars>>

\* The generator resumed after the yield: continue with the cursor after a
\* pause, or break.
ResumeAfterYield ==
    /\ pc = "yielded"
    /\ IF HasNextPage(page_response)
         THEN /\ params' = NextParams(params, page_response)
              /\ events' = Append(events, "sleep")
              /\ pc' = "fetch"
         ELSE /\ pc' = "done"
              /\ UNCHANGED <<params, events>>
    /\ UNCHANGED <<client, session, lifecycle, call_vars, sort_by, server, page_response, all_assets, library,
                   derived, error, requests, answers, yielded, batch_vars>>

\* ------------------------------------------------------------- the Library
Library(asset_list, total_count) == [assets |-> asset_list, total_count |-> total_count]

GetLibraryReturn_PartialOnError ==
    /\ pc \in {"done", "raised"}
    /\ library' = <<Library(all_assets, Len(all_assets))>>
    /\ pc' = "returned"
    /\ UNCHANGED <<client, session, lifecycle, call_vars, sort_by, server, params, page_response, all_assets,
                   derived, error, requests, answers, yielded, events, batch_vars>>

\* get_library's return statement
GetLibraryReturn ==
    /\ pc = "done"
    /\ library' = <<Library(all_assets, Len(all_assets))>>
    /\ pc' = "returned"
    /\ UNCHANGED <<client, session, lifecycle, call_vars, sort_by, server, params, page_response, all_assets,
                   derived, error, requests, answers, yielded, events, batch_vars>>

Predicates == {"accept_all", "reject_all", "uid_odd"}
Predicate(p, asset) ==
    CASE p = "accept_all" -> TRUE
      [] p = "reject_all" -> FALSE
      [] p = "uid_odd" -> asset.uid % 2 = 1

AssetStatuses == {"approved", "revoked", "pending"}

Library_filter_KeepsCount(lib, p) ==
    Library(SelectSeq(lib.assets, LAMBDA a : Predicate(p, a)), lib.total_count)

\* Library.filter
Library_filter(lib, p) ==
    LET filtered == SelectSeq(lib.assets, LAMBDA a : Predicate(p, a))
    IN Library(filtered, Len(filtered))

\* Library.filter_by_status
Library_filter_by_status(lib, status) ==
    LET filtered == SelectSeq(lib.assets, LAMBDA a : a.status = status)
    IN Library(filtered, Len(filtered))

Filter ==
    /\ pc = "returned"
    /\ \E lib \in {library[i] : i \in 1..Len(library)} \cup {derived[i] : i \in 1..Len(derived)} :
        \E p \in Predicates :
            derived' = <<Library_filter(lib, p)>>
    /\ UNCHANGED <<client, session, lifecycle, call_vars, sort_by, server, pc, params, page_response, all_assets,
                   library, error, requests, answers, yielded, events, batch_vars>>

FilterByStatus ==
    /\ pc = "returned"
    /\ \E lib \in {library[i] : i \in 1..Len(library)} \cup {derived[i] : i \in 1..Len(derived)} :
        \E s \in AssetStatuses :
            derived' = <<Library_filter_by_status(lib, s)>>
    /\ UNCHANGED <<client, session, lifecycle, call_vars, sort_by, server, pc, params, page_response, all_assets,
                   library, error, requests, answers, yielded, events, batch_vars>>

\* The client is shut down when the body that uses it has ended, by its
\* return or by the exception it raised: the with-statement calls close().
Shutdown ==
    /\ lifecycle = "constructed"
    /\ pc \in {"returned", "raised"}
    /\ lifecycle' = "shutdown"
    /\ session' = close(client, session)
    /\ UNCHANGED <<client, walk_vars, batch_vars, call_vars>>

\* ------------------------------------------------- the manifest pipeline
\* A title is a sequence of characters.
TitlePool == << <<"R", "k">>, <<"R", ":", "/", "k">>, <<"*", "R", "_", "k">> >>

\* The i-th asset of a batch: assets differ in uid.
AssetOf(i) == [uid |-> i, title |-> TitlePool[((i - 1) % Len(TitlePool)) + 1]]

InvalidChars == {"<", ">", ":", "\"", "/", "\\", "|", "?", "*"}
FilenameLimit == 200

RECURSIVE CollapseUnderscores(_)
CollapseUnderscores(t) ==
    IF Len(t) <= 1 THEN t
    ELSE IF t[1] = "_" /\ t[2] = "_" THEN CollapseUnderscores(Tail(t))
    ELSE <<t[1]>> \o CollapseUnderscores(Tail(t))

RECURSIVE StripUnderscores(_)
StripUnderscores(t) ==
    IF t = <<>> THEN t
    ELSE IF t[1] = "_" THEN StripUnderscores(Tail(t))
    ELSE IF t[Len(t)] = "_" THEN StripUnderscores(SubSeq(t, 1, Len(t) - 1))
    ELSE t

\* sanitize_filename
sanitize_filename(title) ==
    LET replaced == [i \in 1..Len(title) |->
                        IF title[i] \in InvalidChars THEN "_" ELSE title[i]]
        collapsed == CollapseUnderscores(replaced)
        trimmed == SubSeq(collapsed, 1,
                          IF Len(collapsed) < FilenameLimit THEN Len(collapsed)
                                                           ELSE FilenameLimit)
    IN StripUnderscores(trimmed)

\* validate_url of the core library: URL 1 is a well-formed https URL, any
\* other URL is malformed or of an unexpected scheme.
validate_url(url) == url.str = 1

\* Raw asset-formats bodies.  A file is [has_uid, uid]; a format object is
\* [code, files]; a body is a list, a dict with an assetFormats list, a dict
\* that is itself a format object, or something else.
File(uid) == [has_uid |-> TRUE, uid |-> uid]
Format(code, files) == [code |-> code, files |-> files]
FormatsData(shape, items) == [shape |-> shape, items |-> items]

FormatsBodies ==
    {FormatsData("list", <<Format("other", <<File(7)>>), Format("unreal-engine", <<File(5)>>)>>),
     FormatsData("list", <<>>),
     FormatsData("list", <<Format("other", <<File(7)>>)>>),
     FormatsData("dict_assetFormats", <<Format("unreal-engine", <<File(0)>>)>>),
     FormatsData("dict", <<Format("other", <<File(6)>>)>>)}

NoFormats == FormatsData("other", <<>>)

from_api_response_DictIsEmpty(data) ==
    IF data.shape = "list" THEN data.items
    ELSE IF data.shape = "dict_assetFormats" THEN data.items
    ELSE <<>>

\* AssetFormatsResponse.from_api_response: the list of format objects
from_api_response(data) ==
    IF data.shape = "list" THEN data.items
    ELSE IF data.shape = "dict_assetFormats" THEN data.items
    ELSE IF data.shape = "dict" THEN data.items
    ELSE <<>>

RECURSIVE FirstFileWithUid(_)
FirstFileWithUid(files) ==
    IF files = <<>> THEN [found |-> FALSE, uid |-> None]
    ELSE IF files[1].has_uid THEN [found |-> TRUE, uid |-> Str(files[1].uid)]
    ELSE FirstFileWithUid(Tail(files))

\* AssetFormatsResponse.find_unreal_file_uid
RECURSIVE find_unreal_file_uid(_)
find_unreal_file_uid(formats) ==
    IF formats = <<>> THEN None
    ELSE IF formats[1].code = "unreal-engine" /\ FirstFileWithUid(formats[1].files).found
        THEN FirstFileWithUid(formats[1].files).uid
    ELSE find_unreal_file_uid(Tail(formats))

\* Raw download-info bodies: a dict whose downloadInfo member is missing or
\* a list of [type, downloadUrl] entries.
Info(type, url_kind, url) == [type |-> type, downloadUrl |-> [kind |-> url_kind, str |-> url]]
InfoData(has_key, items) == [has_key |-> has_key, items |-> items]

InfoBodies ==
    {InfoData(TRUE, <<Info("other", "string", 1), Info("manifest", "string", 1)>>),
     InfoData(TRUE, <<>>),
     InfoData(FALSE, <<>>),
     InfoData(TRUE, <<Info("other", "string", 1)>>),
     InfoData(TRUE, <<Info("manifest", "missing", 0)>>),
     InfoData(TRUE, <<Info("manifest", "string", 2)>>)}

NoInfo == InfoData(FALSE, <<>>)

\* DownloadInfoResponse.from_dict: data.get("downloadInfo", [])
download_info_from_dict(data) == IF data.has_key THEN data.items ELSE <<>>

RECURSIVE find_manifest_url_SkipsMissingUrl(_)
find_manifest_url_SkipsMissingUrl(download_info) ==
    IF download_info = <<>> THEN None
    ELSE IF download_info[1].type = "manifest" /\ download_info[1].downloadUrl.kind = "string"
        THEN JsonGet(download_info[1].downloadUrl)
    ELSE find_manifest_url_SkipsMissingUrl(Tail(download_info))

\* DownloadInfoResponse.find_manifest_url
RECURSIVE find_manifest_url(_)
find_manifest_url(download_info) ==
    IF download_info = <<>> THEN None
    ELSE IF download_info[1].type = "manifest" THEN JsonGet(download_info[1].downloadUrl)
    ELSE find_manifest_url(Tail(download_info))

\* What the transport can hand back for a metadata request whose JSON body
\* is one of `bodies`: a timeout, a connection failure, a 200 response with
\* the body, an error status, or a 304 whose body does not decode.
StageAnswers(bodies, nobody) ==
    {[kind |-> k, status |-> 0, body |-> "none", data |-> nobody] :
        k \in {"timeout", "connection"}}
    \cup {[kind |-> "response", status |-> 200, body |-> "json", data |-> d] : d \in bodies}
    \cup {[kind |-> "response", status |-> s, body |-> "json", data |-> nobody] :
            s \in {401, 403, 404, 500}}
    \cup {[kind |-> "response", status |-> 304, body |-> b, data |-> nobody] :
            b \in {"invalid_json", "not_json_type"}}

\* What the transport can hand back for the manifest fetch: `size` bytes of
\* content with a status, a timeout or a connection failure.
ManifestStatuses == {200, 304, 403, 404, 500}
ManifestSizes == {0, 64}
ManifestAnswers ==
    {[kind |-> k, status |-> 0, size |-> 0] : k \in {"timeout", "connection"}}
    \cup {[kind |-> "response", status |-> 200, size |-> n] : n \in ManifestSizes}
    \cup {[kind |-> "response", status |-> s, size |-> 0] : s \in ManifestStatuses \ {200}}

Exc(type, msg, code) == [type |-> type, msg |-> msg, code |-> code]
NoExc == Exc("", "", 0)

\* _discover_file_uid: the exception raised or the Optional[str] returned
discover_file_uid(cl, ans) ==
    IF ans.kind = "timeout"
        THEN [raised |-> TRUE, exc |-> Exc("FabNetworkError", "Request timeout", 0), value |-> None]
    ELSE IF ans.kind = "connection"
        THEN [raised |-> TRUE, exc |-> Exc("FabNetworkError", "Connection error", 0), value |-> None]
    ELSE IF ans.status \in {401, 403}
        THEN [raised |-> TRUE,
              exc |-> Exc("FabAuthenticationError", "Authentication failed (HTTP)", ans.status),
              value |-> None]
    ELSE IF ans.status = 404
        THEN [raised |-> FALSE, exc |-> NoExc, value |-> None]
    ELSE IF RaiseForStatus(ans.status)
        THEN [raised |-> TRUE, exc |-> Exc("FabAPIError", "HTTP error", ans.status), value |-> None]
    ELSE IF ans.body = "json"
        THEN [raised |-> FALSE, exc |-> NoExc,
              value |-> find_unreal_file_uid(from_api_response(ans.data))]
    ELSE IF cl = "FabAsyncClient" /\ ans.body = "not_json_type"
        THEN [raised |-> TRUE, exc |-> Exc("FabAPIError", "HTTP error", ans.status), value |-> None]
    ELSE [raised |-> TRUE, exc |-> Exc("JSONDecodeError", "JSON decode error", 0), value |-> None]

NoDownloadInfo == [none |-> TRUE, download_info |-> <<>>]

\* _get_download_info: the exception raised or the Optional[DownloadInfoResponse]
get_download_info(cl, ans) ==
    IF ans.kind = "timeout"
        THEN [raised |-> TRUE, exc |-> Exc("FabNetworkError", "Request timeout", 0),
              value |-> NoDownloadInfo]
    ELSE IF ans.kind = "connection"
        THEN [raised |-> TRUE, exc |-> Exc("FabNetworkError", "Connection error", 0),
              value |-> NoDownloadInfo]
    ELSE IF ans.status \in {401, 403}
        THEN [raised |-> TRUE,
              exc |-> Exc("FabAuthenticationError", "Authentication failed (HTTP)", ans.status),
              value |-> NoDownloadInfo]
    ELSE IF ans.status = 404
        THEN [raised |-> FALSE, exc |-> NoExc, value |-> NoDownloadInfo]
    ELSE IF RaiseForStatus(ans.status)
        THEN [raised |-> TRUE, exc |-> Exc("FabAPIError", "HTTP error", ans.status),
              value |-> NoDownloadInfo]
    ELSE IF ans.body = "json"
        THEN [raised |-> FALSE, exc |-> NoExc,
              value |-> [none |-> FALSE, download_info |-> download_info_from_dict(ans.data)]]
    ELSE IF cl = "FabAsyncClient" /\ ans.body = "not_json_type"
        THEN [raised |-> TRUE, exc |-> Exc("FabAPIError", "HTTP error", ans.status),
              value |-> NoDownloadInfo]
    ELSE [raised |-> TRUE, exc |-> Exc("JSONDecodeError", "JSON decode error", 0),
          value |-> NoDownloadInfo]

\* The manifest fetch: the exception raised (raise_for_status, timeout,
\* connection failure) or the bytes read.  str() of asyncio.TimeoutError is
\* the empty string.
fetch_manifest(cl, ans) ==
    IF ans.kind = "timeout"
        THEN [raised |-> TRUE,
              exc |-> Exc("Timeout", IF cl = "FabAsyncClient" THEN "" ELSE "Read timed out", 0),
              size |-> 0]
    ELSE IF ans.kind = "connection"
        THEN [raised |-> TRUE, exc |-> Exc("ConnectionError", "Connection failed", 0), size |-> 0]
    ELSE IF RaiseForStatus(ans.status)
        THEN [raised |-> TRUE, exc |-> Exc("HTTPError", "HTTP status error", ans.status), size |-> 0]
    ELSE [raised |-> FALSE, exc |-> NoExc, size |-> ans.size]

\* ManifestDownloadResult
NoPath == [none |-> TRUE, title |-> <<>>, uid |-> 0]
Path(title, uid) == [none |-> FALSE, title |-> title, uid |-> uid]
\* What a download_manifest call ended with: a ManifestDownloadResult it
\* returned (raised is FALSE), or an exception that left it (raised is TRUE,
\* error holds the exception).
NoResult ==
    [set |-> FALSE, raised |-> FALSE, success |-> FALSE, file_path |-> NoPath,
     size |-> [none |-> TRUE, n |-> 0], error |-> [none |-> TRUE, msg |-> "", code |-> 0]]
Failure(msg, code) ==
    [set |-> TRUE, raised |-> FALSE, success |-> FALSE, file_path |-> NoPath,
     size |-> [none |-> TRUE, n |-> 0], error |-> [none |-> FALSE, msg |-> msg, code |-> code]]
Success_CarriesError(path, n) ==
    [set |-> TRUE, raised |-> FALSE, success |-> TRUE, file_path |-> path,
     size |-> [none |-> FALSE, n |-> n], error |-> [none |-> FALSE, msg |-> "", code |-> 0]]
Success(path, n) ==
    [set |-> TRUE, raised |-> FALSE, success |-> TRUE, file_path |-> path,
     size |-> [none |-> FALSE, n |-> n], error |-> [none |-> TRUE, msg |-> "", code |-> 0]]
Propagated(msg, code) == [Failure(msg, code) EXCEPT !.raised = TRUE]

AfterDiscover_IgnoresAbsence(out) ==
    IF out.raised
        THEN [done |-> TRUE, result |-> Failure(out.exc.msg, out.exc.code), file_uid |-> None]
    ELSE [done |-> FALSE, result |-> NoResult, file_uid |-> out.value]

\* download_manifest, step 1 after the call of _discover_file_uid: the
\* except clause, the `if not file_uid` return, or the way on.
AfterDiscover(out) ==
    IF out.raised
        THEN [done |-> TRUE, result |-> Failure(out.exc.msg, out.exc.code), file_uid |-> None]
    ELSE IF ~Truthy(out.value)
        THEN [done |-> TRUE, result |-> Failure("No Unreal Engine format found", 0),
              file_uid |-> None]
    ELSE [done |-> FALSE, result |-> NoResult, file_uid |-> out.value]

AfterDownloadInfo_RaisesOnAbsence(out) ==
    IF out.raised
        THEN [done |-> TRUE, result |-> Failure(out.exc.msg, out.exc.code), manifest_url |-> None]
    ELSE IF out.value.none
        THEN [done |-> TRUE, result |-> Propagated("Resource not found", 404),
              manifest_url |-> None]
    ELSE IF ~Truthy(find_manifest_url(out.value.download_info))
        THEN [done |-> TRUE, result |-> Failure("Manifest URL not found in download info", 0),
              manifest_url |-> None]
    ELSE IF ~validate_url(find_manifest_url(out.value.download_info))
        THEN [done |-> TRUE,
              result |-> Failure("Invalid manifest URL", find_manifest_url(out.value.download_info).str),
              manifest_url |-> None]
    ELSE [done |-> FALSE, result |-> NoResult,
          manifest_url |-> find_manifest_url(out.value.download_info)]

AfterDownloadInfo_SkipsValidation(out) ==
    IF out.raised
        THEN [done |-> TRUE, result |-> Failure(out.exc.msg, out.exc.code), manifest_url |-> None]
    ELSE IF out.value.none
        THEN [done |-> TRUE, result |-> Failure("Download info not found", 0), manifest_url |-> None]
    ELSE IF ~Truthy(find_manifest_url(out.value.download_info))
        THEN [done |-> TRUE, result |-> Failure("Manifest URL not found in download info", 0),
              manifest_url |-> None]
    ELSE [done |-> FALSE, result |-> NoResult,
          manifest_url |-> find_manifest_url(out.value.download_info)]

\* download_manifest, step 2 after the call of _get_download_info: the
\* except clause, the three early returns, or the way on.
AfterDownloadInfo(out) ==
    IF out.raised
        THEN [done |-> TRUE, result |-> Failure(out.exc.msg, out.exc.code), manifest_url |-> None]
    ELSE IF out.value.none
        THEN [done |-> TRUE, result |-> Failure("Download info not found", 0), manifest_url |-> None]
    ELSE IF ~Truthy(find_manifest_url(out.value.download_info))
        THEN [done |-> TRUE, result |-> Failure("Manifest URL not found in download info", 0),
              manifest_url |-> None]
    ELSE IF ~validate_url(find_manifest_url(out.value.download_info))
        THEN [done |-> TRUE,
              result |-> Failure("Invalid manifest URL", find_manifest_url(out.value.download_info).str),
              manifest_url |-> None]
    ELSE [done |-> FALSE, result |-> NoResult,
          manifest_url |-> find_manifest_url(out.value.download_info)]

AfterFetch_PropagatesException(asset, out) ==
    IF out.raised THEN Propagated(out.exc.msg, out.exc.code)
    ELSE Success(Path(sanitize_filename(asset.title), asset.uid), out.size)

\* download_manifest, steps 3 and 4 after the fetch: the except clause or the
\* success result with the output path and the byte count.
AfterFetch(asset, out) ==
    IF out.raised THEN Failure(out.exc.msg, out.exc.code)
    ELSE Success(Path(sanitize_filename(asset.title), asset.uid), out.size)

\* An entry of an asset's history.
Event(ev, what, msg, code) ==
    [ev |-> ev, what |-> what, msg |-> msg, code |-> code, via |-> ""]
Note(what) == IF on_progress THEN <<Event("note", what, "", 0)>> ELSE <<>>

\* How client cl issues the request to an endpoint: the two metadata requests
\* go through the client's authenticated session; the manifest fetch goes
\* through the session in FabAsyncClient and through the module-level
\* requests.get, without the session, in FabClient.
Via(cl, endpoint) ==
    IF endpoint = "manifest" /\ cl = "FabClient" THEN "requests.get" ELSE "session.get"
Request(endpoint, arg) ==
    <<[Event("request", endpoint, "", arg) EXCEPT !.via = Via(client, endpoint)]>>
Sleep == <<Event("sleep", "rate_limit_delay", "", 0)>>

\* The injected callback raises at one notification of one asset, or never.
\* "final" is the notification after download_manifest returned.
Notifications ==
    {"starting", "Discovering file UID", "Getting download info",
     "Downloading manifest", "final"}
NoRaise == [asset |-> 0, what |-> ""]
CallbackRaises(i, what) == on_progress /\ raises_at = [asset |-> i, what |-> what]

\* The exception of a raising callback, caught by download_manifest's except
\* clause.
CallbackFailure == Failure("callback error", 0)

\* Asset i's download_manifest call can take a step: download_manifests is
\* under way, or it is the download_manifests of FabAsyncClient that raised
\* out of asyncio.gather, which leaves the other tasks running.
Running == bpc = "running" \/ (bpc = "raised" /\ client = "FabAsyncClient")

FinalNote_AlwaysCompleted(r) ==
    IF ~on_progress THEN <<>> ELSE <<Event("note", "completed", "", 0)>>

Turn_AnyOrder(i) == TRUE

\* The notification after download_manifest returned.
FinalNote(r) ==
    IF ~on_progress THEN <<>>
    ELSE IF r.success THEN <<Event("note", "completed", "", 0)>>
    ELSE <<Event("note", "failed", r.error.msg, r.error.code)>>

\* FabClient runs the assets one after the other; the tasks of
\* FabAsyncClient run interleaved.
Turn(i) == client = "FabAsyncClient" \/ \A j \in 1..(i - 1) : apc[j] = "finished"

\* download_manifest ended with r for asset i.  A returned result is recorded
\* (appended to results by FabClient, kept by the task of FabAsyncClient)
\* and the final notification emitted.  download_manifests has no handler
\* around the call: an exception that left download_manifest leaves
\* download_manifests.
Finish(i, r, log) ==
    /\ task_result' = [task_result EXCEPT ![i] = r]
    /\ apc' = [apc EXCEPT ![i] = "finished"]
    /\ first_completed' = IF first_completed = 0 THEN i ELSE first_completed
    /\ IF r.raised
         THEN /\ bpc' = "raised"
              /\ alog' = [alog EXCEPT ![i] = log]
              /\ UNCHANGED results
         ELSE /\ alog' = [alog EXCEPT ![i] = log \o FinalNote(r)]
              /\ results' = IF client = "FabClient" THEN Append(results, r) ELSE results
              /\ bpc' = IF CallbackRaises(i, "final") THEN "raised" ELSE bpc

\* FabAsyncClient.download_manifests: the loop that notifies "starting" for
\* every asset and creates its task.
CreateTasks ==
    /\ bpc = "running"
    /\ client = "FabAsyncClient"
    /\ \A i \in 1..Len(assets) : apc[i] = "pending"
    /\ IF on_progress /\ raises_at.what = "starting"
         THEN \* the loop ends at the raising notification: no task is awaited
              /\ alog' = [i \in 1..Len(assets) |->
                             IF i <= raises_at.asset THEN alog[i] \o Note("starting")
                                                     ELSE alog[i]]
              /\ bpc' = "raised"
              /\ UNCHANGED apc
         ELSE /\ apc' = [i \in 1..Len(assets) |-> "discover"]
              /\ alog' = [i \in 1..Len(assets) |-> alog[i] \o Note("starting")]
              /\ UNCHANGED bpc
    /\ UNCHANGED <<client, session, lifecycle, call_vars, walk_vars, cancelled, assets, on_progress, raises_at, file_uid, manifest_url,
                   task_result, results, disk, aanswers, first_completed>>

\* FabClient.download_manifests: the head of the loop body for asset i.
StartAsset(i) ==
    /\ bpc = "running"
    /\ client = "FabClient"
    /\ apc[i] = "pending"
    /\ Turn(i)
    /\ alog' = [alog EXCEPT ![i] = @ \o Note("starting")]
    /\ IF CallbackRaises(i, "starting")
         THEN bpc' = "raised" /\ UNCHANGED apc
         ELSE apc' = [apc EXCEPT ![i] = "discover"] /\ UNCHANGED bpc
    /\ UNCHANGED <<client, session, lifecycle, call_vars, walk_vars, cancelled, assets, on_progress, raises_at, file_uid, manifest_url,
                   task_result, results, disk, aanswers, first_completed>>

\* download_manifest, step 1: the asset-formats request.
Discover(i) ==
    /\ Running
    /\ apc[i] = "discover"
    /\ Turn(i)
    /\ IF CallbackRaises(i, "Discovering file UID")
      THEN /\ Finish(i, CallbackFailure, alog[i] \o Note("Discovering file UID"))
           /\ UNCHANGED <<file_uid, aanswers, session>>
      ELSE
       \E ans \in StageAnswers(FormatsBodies, NoFormats) :
        LET step == AfterDiscover(discover_file_uid(client, ans))
            log == alog[i] \o Note("Discovering file UID")
                           \o Request("asset-formats", assets[i].uid)
        IN /\ session' = get_session(client, session)
           /\ aanswers' = [aanswers EXCEPT ![i] =
                              Append(@, [stage |-> "asset-formats", kind |-> ans.kind,
                                         status |-> ans.status, body |-> ans.body,
                                         formats |-> ans.data, info |-> NoInfo, size |-> 0])]
           /\ IF step.done
                THEN /\ Finish(i, step.result, log)
                     /\ UNCHANGED file_uid
                ELSE /\ file_uid' = [file_uid EXCEPT ![i] = step.file_uid]
                     /\ apc' = [apc EXCEPT ![i] = "pause1"]
                     /\ alog' = [alog EXCEPT ![i] = log]
                     /\ UNCHANGED <<task_result, results, bpc, first_completed>>
    /\ UNCHANGED <<client, lifecycle, call_vars, walk_vars, cancelled, assets, on_progress, raises_at, manifest_url, disk>>

Pause_NoSleep(i) ==
    /\ Running
    /\ apc[i] \in {"pause1", "pause2"}
    /\ Turn(i)
    /\ apc' = [apc EXCEPT ![i] = IF @ = "pause1" THEN "download_info" ELSE "fetch"]
    /\ UNCHANGED <<client, session, lifecycle, call_vars, walk_vars, cancelled, assets, on_progress, raises_at, bpc, file_uid, manifest_url,
                   task_result, results, disk, alog, aanswers, first_completed>>

\* download_manifest: the pause between two stages.
Pause(i) ==
    /\ Running
    /\ apc[i] \in {"pause1", "pause2"}
    /\ Turn(i)
    /\ apc' = [apc EXCEPT ![i] = IF @ = "pause1" THEN "download_info" ELSE "fetch"]
    /\ alog' = [alog EXCEPT ![i] = @ \o Sleep]
    /\ UNCHANGED <<client, session, lifecycle, call_vars, walk_vars, cancelled, assets, on_progress, raises_at, bpc, file_uid, manifest_url,
                   task_result, results, disk, aanswers, first_completed>>

\* download_manifest, step 2: the download-info request, the lookup of the
\* manifest URL and its validation.
GetDownloadInfo(i) ==
    /\ Running
    /\ apc[i] = "download_info"
    /\ Turn(i)
    /\ IF CallbackRaises(i, "Getting download info")
      THEN /\ Finish(i, CallbackFailure, alog[i] \o Note("Getting download info"))
           /\ UNCHANGED <<manifest_url, aanswers, session>>
      ELSE
       \E ans \in StageAnswers(InfoBodies, NoInfo) :
        LET step == AfterDownloadInfo(get_download_info(client, ans))
            log == alog[i] \o Note("Getting download info")
                           \o Request("download-info", file_uid[i].str)
        IN /\ session' = get_session(client, session)
           /\ aanswers' = [aanswers EXCEPT ![i] =
                              Append(@, [stage |-> "download-info", kind |-> ans.kind,
                                         status |-> ans.status, body |-> ans.body,
                                         formats |-> NoFormats, info |-> ans.data, size |-> 0])]
           /\ IF step.done
                THEN /\ Finish(i, step.result, log)
                     /\ UNCHANGED manifest_url
                ELSE /\ manifest_url' = [manifest_url EXCEPT ![i] = step.manifest_url]
                     /\ apc' = [apc EXCEPT ![i] = "pause2"]
                     /\ alog' = [alog EXCEPT ![i] = log]
                     /\ UNCHANGED <<task_result, results, bpc, first_completed>>
    /\ UNCHANGED <<client, lifecycle, call_vars, walk_vars, cancelled, assets, on_progress, raises_at, file_uid, disk>>

\* download_manifest, steps 3 and 4: the manifest fetch and the file write.
FetchManifest(i) ==
    /\ Running
    /\ apc[i] = "fetch"
    /\ Turn(i)
    /\ IF CallbackRaises(i, "Downloading manifest")
      THEN /\ Finish(i, CallbackFailure, alog[i] \o Note("Downloading manifest"))
           /\ UNCHANGED <<aanswers, disk, session>>
      ELSE
       \E ans \in ManifestAnswers :
        LET r == AfterFetch(assets[i], fetch_manifest(client, ans))
            log == alog[i] \o Note("Downloading manifest")
                           \o Request("manifest", manifest_url[i].str)
        IN /\ session' = get_session(client, session)
           /\ aanswers' = [aanswers EXCEPT ![i] =
                              Append(@, [stage |-> "manifest", kind |-> ans.kind,
                                         status |-> ans.status, body |-> "bytes",
                                         formats |-> NoFormats, info |-> NoInfo,
                                         size |-> ans.size])]
           /\ Finish(i, r, log)
           /\ disk' = IF r.success
                        THEN {f \in disk : f.path # r.file_path}
                             \cup {[path |-> r.file_path, size |-> r.size.n]}
                        ELSE disk
    /\ UNCHANGED <<client, lifecycle, call_vars, walk_vars, cancelled, assets, on_progress, raises_at, file_uid,
                   manifest_url>>

ExceptException_CatchesCancelled(exc_type) == TRUE

\* `except Exception` of download_manifest catches the exception type or
\* not: asyncio.CancelledError derives from BaseException and passes it.
ExceptException(exc_type) == exc_type # "CancelledError"

\* What asset i's task is suspended in: the request of its stage, in flight,
\* or the pause after it.
Suspended(i) ==
    CASE apc[i] = "discover" ->
            Note("Discovering file UID") \o Request("asset-formats", assets[i].uid)
      [] apc[i] = "download_info" ->
            Note("Getting download info") \o Request("download-info", file_uid[i].str)
      [] apc[i] = "fetch" ->
            Note("Downloading manifest") \o Request("manifest", manifest_url[i].str)
      [] apc[i] \in {"pause1", "pause2"} -> Sleep

\* The task of asset i is cancelled while it is suspended in a request or in
\* a pause: CancelledError is raised there, passes download_manifest's except
\* clause and ends the task; asyncio.gather hands it to download_manifests
\* and leaves the other tasks running.
Cancel(i) ==
    /\ client = "FabAsyncClient"
    /\ Running
    /\ apc[i] \in {"discover", "pause1", "download_info", "pause2", "fetch"}
    /\ ~(on_progress /\ raises_at.asset = i)
    /\ cancelled' = cancelled \cup {i}
    /\ session' = IF apc[i] \in {"pause1", "pause2"} THEN session
                                                    ELSE get_session(client, session)
    /\ IF ExceptException("CancelledError")
         THEN Finish(i, Failure("", 0), alog[i] \o Suspended(i))
         ELSE /\ apc' = [apc EXCEPT ![i] = "cancelled"]
              /\ alog' = [alog EXCEPT ![i] = @ \o Suspended(i)]
              /\ first_completed' = IF first_completed = 0 THEN i ELSE first_completed
              /\ bpc' = "raised"
              /\ UNCHANGED <<task_result, results>>
    /\ UNCHANGED <<client, lifecycle, call_vars, walk_vars, assets, on_progress, raises_at, file_uid,
                   manifest_url, disk, aanswers>>

gather_CompletionOrder(tasks, first) ==
    [k \in 1..Len(tasks) |-> IF k = 1 THEN tasks[first]
                             ELSE IF k <= first THEN tasks[k - 1] ELSE tasks[k]]

\* asyncio.gather: the results of the awaitables, in the order the awaitables
\* were passed, whatever the order they first_completed in.
gather(tasks, first) == [i \in 1..Len(tasks) |-> tasks[i]]

\* download_manifests returns: FabClient its results list, FabAsyncClient
\* the list asyncio.gather built from the tasks.
BatchReturn ==
    /\ bpc = "running"
    /\ \A i \in 1..Len(assets) : apc[i] = "finished"
    /\ bpc' = "returned"
    /\ results' = IF client = "FabAsyncClient"
                    THEN gather(task_result, first_completed)
                    ELSE results
    /\ UNCHANGED <<client, session, lifecycle, call_vars, walk_vars, cancelled, assets, on_progress, raises_at, apc, file_uid, manifest_url,
                   task_result, disk, alog, aanswers, first_completed>>

\* No model-layer call is under study.
NoCall == [op |-> ""]
NoOutcome == [done |-> FALSE]
CallIdle == call_in = NoCall /\ call_out = NoOutcome

\* No download_manifests call is under way.
BatchIdle ==
    /\ assets = <<>>
    /\ on_progress = FALSE
    /\ raises_at = NoRaise
    /\ bpc = "idle"
    /\ apc = <<>>
    /\ file_uid = <<>>
    /\ manifest_url = <<>>
    /\ task_result = <<>>
    /\ results = <<>>
    /\ disk = {}
    /\ alog = <<>>
    /\ aanswers = <<>>
    /\ first_completed = 0
    /\ cancelled = {}

\* ------------------------------------------------------------ specification
\* The server holds n pages.  Pages before the first page m without a
\* continuation cursor carry one; the pages behind page m are pages the
\* server holds but a correct walk never asks for.  Page k holds
\* (k + shift) % (MaxResults + 1) results, so that the pages of one chain
\* differ in length and any page can be empty; the top-level "next" member
\* is present on every page of the chain or on none.
Chain(n, m, shift, top, kind) ==
    [k \in 1..n |->
        RawPage(k, (k + shift) % (MaxResults + 1),
                IF k < m \/ (m < k /\ k < n) THEN "next_token"
                ELSE IF k = m THEN kind ELSE "missing",
                top)]

Init ==
    /\ client \in Clients
    /\ session = Construct(client)
    /\ lifecycle = "constructed"
    /\ CallIdle
    /\ sort_by \in SortOrders
    /\ \E n \in 1..MaxPages : \E m \in 1..n :
        \E shift \in 0..MaxResults : \E top \in BOOLEAN :
            \E kind \in TerminalCursorKinds :
                server = Chain(n, m, shift, top, kind)
    /\ pc = "fetch"
    /\ params = [sort_by |-> sort_by, cursor |-> None]
    /\ page_response = NoPage
    /\ all_assets = <<>>
    /\ library = <<>>
    /\ derived = <<>>
    /\ error = NoError
    /\ requests = <<>>
    /\ answers = <<>>
    /\ yielded = <<>>
    /\ events = <<>>
    /\ BatchIdle

Next ==
    \/ FetchPage
    \/ ResumeAfterYield
    \/ GetLibraryReturn
    \/ Filter
    \/ FilterByStatus
    \/ Shutdown

Spec == Init /\ [][Next]_vars

\* get_library drives the generator to its end: each step of the walk and of
\* the aggregation is eventually taken, and so is the shutdown of the client
\* when the body has ended.
FairSpec ==
    /\ Spec
    /\ WF_vars(FetchPage) /\ WF_vars(ResumeAfterYield) /\ WF_vars(GetLibraryReturn)
    /\ WF_vars(Shutdown)

\* No get_library call is under way.
WalkIdle ==
    /\ sort_by = "-createdAt"
    /\ server = <<>>
    /\ pc = "idle"
    /\ params = [sort_by |-> sort_by, cursor |-> None]
    /\ page_response = NoPage
    /\ all_assets = <<>>
    /\ library = <<>>
    /\ derived = <<>>
    /\ error = NoError
    /\ requests = <<>>
    /\ answers = <<>>
    /\ yielded = <<>>
    /\ events = <<>>

\* download_manifests is called with a list of 1..MaxAssets assets and no
\* progress callback.
InitBatch ==
    /\ client \in Clients
    /\ session = Construct(client)
    /\ lifecycle = "constructed"
    /\ CallIdle
    /\ WalkIdle
    /\ \E n \in 1..MaxAssets :
        /\ assets = [i \in 1..n |-> AssetOf(i)]
        /\ apc = [i \in 1..n |-> "pending"]
        /\ file_uid = [i \in 1..n |-> None]
        /\ manifest_url = [i \in 1..n |-> None]
        /\ task_result = [i \in 1..n |-> NoResult]
        /\ alog = [i \in 1..n |-> <<>>]
        /\ aanswers = [i \in 1..n |-> <<>>]
    /\ on_progress = FALSE
    /\ raises_at = NoRaise
    /\ bpc = "running"
    /\ results = <<>>
    /\ disk = {}
    /\ first_completed = 0
    /\ cancelled = {}

NextBatch ==
    \/ CreateTasks
    \/ \E i \in 1..Len(assets) : StartAsset(i)
    \/ \E i \in 1..Len(assets) : Discover(i)
    \/ \E i \in 1..Len(assets) : Pause(i)
    \/ \E i \in 1..Len(assets) : GetDownloadInfo(i)
    \/ \E i \in 1..Len(assets) : FetchManifest(i)
    \/ BatchReturn

SpecBatch == InitBatch /\ [][NextBatch]_vars

\* download_manifests is called with a progress callback that returns
\* normally or raises at one notification of one asset.
InitCallback ==
    /\ client \in Clients
    /\ session = Construct(client)
    /\ lifecycle = "constructed"
    /\ CallIdle
    /\ WalkIdle
    /\ \E n \in 1..MaxAssets :
        /\ assets = [i \in 1..n |-> AssetOf(i)]
        /\ apc = [i \in 1..n |-> "pending"]
        /\ file_uid = [i \in 1..n |-> None]
        /\ manifest_url = [i \in 1..n |-> None]
        /\ task_result = [i \in 1..n |-> NoResult]
        /\ alog = [i \in 1..n |-> <<>>]
        /\ aanswers = [i \in 1..n |-> <<>>]
        /\ raises_at \in {NoRaise}
              \cup {[asset |-> i, what |-> w] : i \in 1..n, w \in Notifications}
    /\ on_progress = TRUE
    /\ bpc = "running"
    /\ results = <<>>
    /\ disk = {}
    /\ first_completed = 0
    /\ cancelled = {}

SpecCallback == InitCallback /\ [][NextBatch]_vars

\* download_manifests is called with a progress callback that returns
\* normally from every notification.
InitProgress ==
    /\ client \in Clients
    /\ session = Construct(client)
    /\ lifecycle = "constructed"
    /\ CallIdle
    /\ WalkIdle
    /\ \E n \in 1..MaxAssets :
        /\ assets = [i \in 1..n |-> AssetOf(i)]
        /\ apc = [i \in 1..n |-> "pending"]
        /\ file_uid = [i \in 1..n |-> None]
        /\ manifest_url = [i \in 1..n |-> None]
        /\ task_result = [i \in 1..n |-> NoResult]
        /\ alog = [i \in 1..n |-> <<>>]
        /\ aanswers = [i \in 1..n |-> <<>>]
    /\ on_progress = TRUE
    /\ raises_at = NoRaise
    /\ bpc = "running"
    /\ results = <<>>
    /\ disk = {}
    /\ first_completed = 0
    /\ cancelled = {}

SpecProgress == InitProgress /\ [][NextBatch]_vars

\* FabAsyncClient.download_manifests is called and any of its tasks can be
\* cancelled while it is suspended.
InitCancel ==
    /\ InitBatch
    /\ client = "FabAsyncClient"
    /\ on_progress = FALSE

NextCancel ==
    \/ CreateTasks
    \/ \E i \in 1..Len(assets) : Discover(i)
    \/ \E i \in 1..Len(assets) : Pause(i)
    \/ \E i \in 1..Len(assets) : GetDownloadInfo(i)
    \/ \E i \in 1..Len(assets) : FetchManifest(i)
    \/ \E i \in 1..Len(assets) : Cancel(i)
    \/ BatchReturn

SpecCancel == InitCancel /\ [][NextCancel]_vars

\* ------------------------------------------------ ManifestDownloadResult.load
\* What the file at a result's file_path holds: bytes that are no JSON, a
\* JSON value that is no object, or a JSON object with or without a
\* FileManifestList of up to MaxFiles entries and a ManifestFileVersion
\* (0: the key is missing).
ManifestEntry(k) == [Filename |-> k, FileHash |-> 10 + k]
ManifestContents ==
    {[kind |-> k, has_list |-> FALSE, list |-> <<>>, version |-> 0] :
        k \in {"not_json", "json_list"}}
    \cup {[kind |-> "json_object", has_list |-> FALSE, list |-> <<>>, version |-> v] :
            v \in {0, 1}}
    \cup {[kind |-> "json_object", has_list |-> TRUE,
           list |-> [k \in 1..n |-> ManifestEntry(k)], version |-> v] :
            n \in 0..MaxFiles, v \in {0, 1}}

NoManifest == [none |-> TRUE, version |-> 0, files |-> <<>>]

ParsedManifest_from_dict_Reversed(data) ==
    [none |-> FALSE,
     version |-> data.version,
     files |-> [k \in 1..Len(data.list) |->
                   [filename |-> data.list[Len(data.list) + 1 - k].Filename,
                    file_hash |-> data.list[Len(data.list) + 1 - k].FileHash]]]

\* ParsedManifest.from_dict: one ManifestFile per entry of FileManifestList
\* (default []), the scalar fields default to "".
ParsedManifest_from_dict(data) ==
    [none |-> FALSE,
     version |-> data.version,
     files |-> [k \in 1..Len(data.list) |->
                   [filename |-> data.list[k].Filename,
                    file_hash |-> data.list[k].FileHash]]]

LoadRaise(type, read) ==
    [done |-> TRUE, raised |-> TRUE, exc |-> type, read |-> read, value |-> NoManifest]

load_EmptyWhenMissing(result, file) ==
    IF ~result.success \/ result.file_path.none
        THEN LoadRaise("ValueError", FALSE)
    ELSE IF ~file.exists
        THEN [done |-> TRUE, raised |-> FALSE, exc |-> "", read |-> FALSE,
              value |-> [NoManifest EXCEPT !.none = FALSE]]
    ELSE IF file.content.kind = "not_json" THEN LoadRaise("JSONDecodeError", TRUE)
    ELSE IF file.content.kind = "json_list" THEN LoadRaise("AttributeError", TRUE)
    ELSE [done |-> TRUE, raised |-> FALSE, exc |-> "", read |-> TRUE,
          value |-> ParsedManifest_from_dict(file.content)]

\* ManifestDownloadResult.load: ValueError for a result that is no success
\* or has no file_path, ValueError for a file that does not exist; otherwise
\* the file is read, decoded as JSON (which raises on bytes that are no
\* JSON) and handed to ParsedManifest.from_dict (whose data.get raises on a
\* JSON value that is no object).
load(result, file) ==
    IF ~result.success \/ result.file_path.none
        THEN LoadRaise("ValueError", FALSE)
    ELSE IF ~file.exists
        THEN LoadRaise("ValueError", FALSE)
    ELSE IF file.content.kind = "not_json" THEN LoadRaise("JSONDecodeError", TRUE)
    ELSE IF file.content.kind = "json_list" THEN LoadRaise("AttributeError", TRUE)
    ELSE [done |-> TRUE, raised |-> FALSE, exc |-> "", read |-> TRUE,
          value |-> ParsedManifest_from_dict(file.content)]

\* A ManifestDownloadResult and the file its file_path names.
InitLoad ==
    /\ client = "FabClient"
    /\ session = Construct(client)
    /\ lifecycle = "constructed"
    /\ WalkIdle
    /\ BatchIdle
    /\ cancelled = {}
    /\ \E success \in BOOLEAN, has_path \in BOOLEAN, exists \in BOOLEAN,
          content \in ManifestContents :
          call_in = [op |-> "load",
                     result |-> [success |-> success,
                                 file_path |-> [none |-> ~has_path]],
                     file |-> [exists |-> exists, content |-> content,
                               removed |-> FALSE]]
    /\ call_out = NoOutcome

\* The manifest file is deleted after the download wrote it.
RemoveFile ==
    /\ call_in.op = "load"
    /\ ~call_out.done
    /\ call_in.file.exists
    /\ call_in' = [call_in EXCEPT !.file.exists = FALSE, !.file.removed = TRUE]
    /\ UNCHANGED <<client, session, lifecycle, walk_vars, batch_vars, call_out>>

\* result.load() is called.
Load ==
    /\ call_in.op = "load"
    /\ ~call_out.done
    /\ call_out' = load(call_in.result, call_in.file)
    /\ UNCHANGED <<client, session, lifecycle, walk_vars, batch_vars, call_in>>

NextLoad == RemoveFile \/ Load

SpecLoad == InitLoad /\ [][NextLoad]_vars

\* ------------------------------------------------------ the output file name
\* Titles and uids as strings of characters: a title may hold a character
\* that sanitize_filename replaces, a uid is used as the API sent it.
TitleChars == {"k", ":"}
UidChars == {"k", "_"}
Strings(chars, lo, hi) == UNION {[1..n -> chars] : n \in lo..hi}
FileAssets ==
    {[uid |-> u, title |-> t] :
        u \in Strings(UidChars, 1, MaxUidLen), t \in Strings(TitleChars, 0, MaxTitleLen)}

output_filename_TitleOnly(asset) ==
    sanitize_filename(asset.title) \o <<".manifest">>

\* download_manifest, step 4: f"{sanitized_title}_{asset.uid}.manifest",
\* joined to the output directory.
output_filename(asset) ==
    sanitize_filename(asset.title) \o <<"_">> \o asset.uid \o <<".manifest">>

\* download_manifest is about to save the manifest of an asset.
InitFilename ==
    /\ client = "FabClient"
    /\ session = Construct(client)
    /\ lifecycle = "constructed"
    /\ WalkIdle
    /\ BatchIdle
    /\ cancelled = {}
    /\ \E a \in FileAssets : call_in = [op |-> "save", asset |-> a]
    /\ call_out = NoOutcome

\* The output path is built and the file written.
SaveManifest ==
    /\ call_in.op = "save"
    /\ ~call_out.done
    /\ call_out' = [done |-> TRUE, output_path |-> output_filename(call_in.asset)]
    /\ UNCHANGED <<client, session, lifecycle, walk_vars, batch_vars, call_in>>

NextFilename == SaveManifest

SpecFilename == InitFilename /\ [][NextFilename]_vars

\* ------------------------------------------- the normalizer, field by field
\* Python values a normalized field can hold: None, a str, or a value that
\* is neither (an int taken over from the raw JSON).
PyNone == [type |-> "NoneType", v |-> 0]
PyStr(s) == [type |-> "str", v |-> s]
PyInt(n) == [type |-> "int", v |-> n]

\* A raw JSON member: missing, null, a string (0 is ""), or a number.
Missing == [kind |-> "missing", str |-> 0]
Null == [kind |-> "null", str |-> 0]
JStr(s) == [kind |-> "string", str |-> s]
JNum(n) == [kind |-> "number", str |-> n]

\* dict.get(key, default) of a raw member
Get(member, default) ==
    CASE member.kind = "missing" -> default
      [] member.kind = "null" -> PyNone
      [] member.kind = "string" -> PyStr(member.str)
      [] member.kind = "number" -> PyInt(member.str)

\* Raw timestamps: a missing or null member, the empty string, a number, a
\* string that is no date, and ISO-8601 strings of an instant with a
\* trailing Z, with an explicit +00:00 offset or without offset.
Iso(instant, suffix) == [kind |-> "iso", instant |-> instant, suffix |-> suffix]
Instants == {1, 2}
Timestamps ==
    {[kind |-> k, instant |-> 0, suffix |-> ""] :
        k \in {"missing", "null", "empty", "number", "not_a_date"}}
    \cup {Iso(t, s) : t \in Instants, s \in {"Z", "+00:00", ""}}

NoTime == [none |-> TRUE, instant |-> 0, aware |-> FALSE]

\* str.replace('Z', '+00:00')
replace_Z(ts) == IF ts.suffix = "Z" THEN [ts EXCEPT !.suffix = "+00:00"] ELSE ts

\* datetime.fromisoformat: a datetime, or ValueError for a string it does
\* not accept (raised FALSE: a datetime was returned)
fromisoformat(ts) ==
    IF ts.kind = "iso" /\ ts.suffix \in {"+00:00", ""}
        THEN [raised |-> FALSE,
              value |-> [none |-> FALSE, instant |-> ts.instant, aware |-> ts.suffix # ""]]
        ELSE [raised |-> TRUE, value |-> NoTime]

parse_timestamp_NoReplace(ts) ==
    IF ts.kind \in {"missing", "null", "empty"} THEN NoTime
    ELSE IF ts.kind = "number" THEN NoTime
    ELSE fromisoformat(ts).value

\* The timestamp block of to_assets: nothing for a falsy value; otherwise
\* fromisoformat(value.replace('Z', '+00:00')) inside try / except
\* (ValueError, AttributeError): pass.  A number has no replace
\* (AttributeError), a string that does not parse gives ValueError.
parse_timestamp(ts) ==
    IF ts.kind \in {"missing", "null", "empty"} THEN NoTime
    ELSE IF ts.kind = "number" THEN NoTime
    ELSE fromisoformat(replace_Z(ts)).value

\* Raw tag entries: a string, an object with a slug member, a number, null.
TagStr(s) == [kind |-> "string", str |-> s, slug |-> Missing]
TagObj(slug) == [kind |-> "object", str |-> 0, slug |-> slug]
TagNum(n) == [kind |-> "number", str |-> n, slug |-> Missing]
TagNull == [kind |-> "null", str |-> 0, slug |-> Missing]

\* The tag loop of to_assets: tag.get('slug', '') for a dict, the tag for a
\* str, nothing for any other entry.
RECURSIVE parse_tags(_)
parse_tags(raw_tags) ==
    IF raw_tags = <<>> THEN <<>>
    ELSE LET tag == raw_tags[1]
         IN (IF tag.kind = "object" THEN <<Get(tag.slug, PyStr(0))>>
             ELSE IF tag.kind = "string" THEN <<PyStr(tag.str)>>
             ELSE <<>>) \o parse_tags(Tail(raw_tags))

\* The raw "tags" member of a listing: missing, null or a list.
Tags(kind, items) == [kind |-> kind, items |-> items]
TagMembers ==
    {Tags("missing", <<>>), Tags("null", <<>>), Tags("list", <<>>),
     Tags("list", <<TagStr(1), TagObj(JStr(2)), TagNum(42)>>),
     Tags("list", <<TagNum(42), TagObj(JStr(2)), TagNull, TagStr(1)>>),
     Tags("list", <<TagObj(Missing)>>),
     Tags("list", <<TagObj(Null), TagStr(1)>>),
     Tags("list", <<TagObj(JNum(7))>>)}

\* The raw "listing" member of a result: missing, an empty object, or an
\* object with title, tags and lastUpdatedAt.
RawListing(kind, title, tags, lastUpdatedAt) ==
    [kind |-> kind, title |-> title, tags |-> tags, lastUpdatedAt |-> lastUpdatedAt]
NoRawListing(kind) == RawListing(kind, Missing, Tags("missing", <<>>), Iso(0, ""))
BaseListing == RawListing("object", JStr(3), Tags("list", <<TagStr(1)>>), Iso(1, "Z"))

\* A raw result of a library page.
Entitlement(uid, title, createdAt, listing) ==
    [uid |-> uid, title |-> title, createdAt |-> createdAt, listing |-> listing]

\* The raw results the normalizer is given: every shape of the uid member,
\* of the two timestamps, of the tags, and of listing and title.
Entitlements ==
    {Entitlement(u, JStr(4), Iso(1, "Z"), BaseListing) :
        u \in {Missing, Null, JStr(0), JStr(5)}}
    \cup {Entitlement(JStr(5), JStr(4), ts, BaseListing) : ts \in Timestamps}
    \cup {Entitlement(JStr(5), JStr(4), Iso(1, "Z"),
                      [BaseListing EXCEPT !.lastUpdatedAt = ts]) : ts \in Timestamps}
    \cup {Entitlement(JStr(5), JStr(4), Iso(1, "Z"),
                      [BaseListing EXCEPT !.tags = tg]) : tg \in TagMembers}
    \cup {Entitlement(JStr(5), t, Iso(2, "+00:00"), l) :
            t \in {Missing, JStr(4)},
            l \in {NoRawListing("missing"), NoRawListing("empty_object"),
                   [BaseListing EXCEPT !.title = Missing]}}

NoListing == [none |-> TRUE]

to_listing_RawWithoutTags(listing_data) ==
    [none |-> FALSE,
     title |-> Get(listing_data.title, PyStr(0)),
     tags |-> parse_tags(listing_data.tags.items),
     last_updated_at |-> parse_timestamp(listing_data.lastUpdatedAt),
     raw_data |-> [listing_data EXCEPT !.tags.items = <<>>]]

\* The listing block of to_assets for a truthy listing object.
to_listing(listing_data) ==
    [none |-> FALSE,
     title |-> Get(listing_data.title, PyStr(0)),
     tags |-> parse_tags(listing_data.tags.items),
     last_updated_at |-> parse_timestamp(listing_data.lastUpdatedAt),
     raw_data |-> listing_data]

\* The body of the to_assets loop for one result: the exception it raises
\* (iterating a null tags member is a TypeError) or the Asset it appends.
to_asset(result) ==
    LET has_listing == result.listing.kind = "object"
    IN IF has_listing /\ result.listing.tags.kind = "null"
         THEN [raised |-> TRUE, exc |-> "TypeError", asset |-> <<>>]
         ELSE LET listing == IF has_listing THEN to_listing(result.listing) ELSE NoListing
              IN [raised |-> FALSE, exc |-> "",
                  asset |-> [uid |-> Get(result.uid, PyStr(0)),
                             title |-> IF has_listing THEN listing.title
                                       ELSE IF result.title.kind # "missing"
                                              THEN Get(result.title, PyStr(0))
                                       ELSE PyStr(0),
                             created_at |-> parse_timestamp(result.createdAt),
                             listing |-> listing,
                             raw_data |-> result]]

\* LibrarySearchResponse.to_assets with every field of the Asset: the
\* Assets of the results in order, or the exception of the first result
\* that raises.
to_assets_in_full(raw_results) ==
    LET each == [j \in 1..Len(raw_results) |-> to_asset(raw_results[j])]
        bad == {j \in 1..Len(each) : each[j].raised}
    IN IF bad = {}
         THEN [raised |-> FALSE, exc |-> "", assets |-> [j \in 1..Len(each) |-> each[j].asset]]
         ELSE [raised |-> TRUE, exc |-> "TypeError", assets |-> <<>>]

\* A raw page of 1..MaxResults results is to be normalized.
InitNormalize ==
    /\ client = "FabClient"
    /\ session = Construct(client)
    /\ lifecycle = "constructed"
    /\ WalkIdle
    /\ BatchIdle
    /\ cancelled = {}
    /\ \E n \in 1..MaxResults : \E rs \in [1..n -> Entitlements] :
          call_in = [op |-> "to_assets", results |-> rs]
    /\ call_out = [done |-> FALSE, outs |-> <<>>]

ToAssets_Stateful ==
    /\ call_in.op = "to_assets"
    /\ Len(call_out.outs) < MaxCalls
    /\ call_out' =
          [done |-> TRUE,
           outs |-> Append(call_out.outs,
                           [to_assets_in_full(call_in.results)
                               EXCEPT !.exc = IF Len(call_out.outs) = 0 THEN @ ELSE "again"])]
    /\ UNCHANGED <<client, session, lifecycle, walk_vars, batch_vars, call_in>>

\* LibrarySearchResponse.from_dict(raw).to_assets() is called (once more).
ToAssets ==
    /\ call_in.op = "to_assets"
    /\ Len(call_out.outs) < MaxCalls
    /\ call_out' = [done |-> TRUE,
                    outs |-> Append(call_out.outs, to_assets_in_full(call_in.results))]
    /\ UNCHANGED <<client, session, lifecycle, walk_vars, batch_vars, call_in>>

NextNormalize == ToAssets

SpecNormalize == InitNormalize /\ [][NextNormalize]_vars

\* ------------------------------------------------ the asset-formats lookup
FileNoUid == [has_uid |-> FALSE, uid |-> 0]
FileLists == {<<>>, <<File(5)>>, <<FileNoUid, File(6)>>, <<File(7), File(8)>>}
FormatObjects == {Format(c, fs) : c \in {"other", "unreal-engine"}, fs \in FileLists}

\* Raw asset-formats payloads: a list of up to MaxFormats format objects,
\* a dict holding such a list under assetFormats, a dict without that key
\* (one format object), or a value that is neither list nor dict.
RawFormats ==
    {FormatsData(shape, items) :
        shape \in {"list", "dict_assetFormats"},
        items \in UNION {[1..n -> FormatObjects] : n \in 0..MaxFormats}}
    \cup {FormatsData("dict", <<f>>) : f \in FormatObjects}
    \cup {NoFormats}

\* An asset-formats payload is to be normalized and searched.
InitFormats ==
    /\ client = "FabClient"
    /\ session = Construct(client)
    /\ lifecycle = "constructed"
    /\ WalkIdle
    /\ BatchIdle
    /\ cancelled = {}
    /\ \E data \in RawFormats : call_in = [op |-> "asset_formats", data |-> data]
    /\ call_out = [done |-> FALSE, formats |-> <<>>, looked_up |-> FALSE, file_uid |-> None]

\* AssetFormatsResponse.from_api_response(data) is called.
FromApiResponse ==
    /\ call_in.op = "asset_formats"
    /\ ~call_out.done
    /\ call_out' = [call_out EXCEPT !.done = TRUE,
                                    !.formats = from_api_response(call_in.data)]
    /\ UNCHANGED <<client, session, lifecycle, walk_vars, batch_vars, call_in>>

\* find_unreal_file_uid() is called on the response.
FindUnrealFileUid ==
    /\ call_in.op = "asset_formats"
    /\ call_out.done
    /\ ~call_out.looked_up
    /\ call_out' = [call_out EXCEPT !.looked_up = TRUE,
                                    !.file_uid = find_unreal_file_uid(call_out.formats)]
    /\ UNCHANGED <<client, session, lifecycle, walk_vars, batch_vars, call_in>>

NextFormats == FromApiResponse \/ FindUnrealFileUid

SpecFormats == InitFormats /\ [][NextFormats]_vars

\* ------------------------------------------------ the download-info lookup
\* Entries of a downloadInfo list: objects of type manifest or of another
\* type, with a downloadUrl that is a string, null or missing, and an entry
\* that is no object.
InfoEntries ==
    {Info("other", "string", 1), Info("manifest", "string", 1), Info("manifest", "string", 2),
     Info("manifest", "missing", 0), Info("manifest", "null", 0),
     Info("not_a_dict", "missing", 0)}

RawDownloadInfos ==
    {InfoData(TRUE, items) : items \in UNION {[1..n -> InfoEntries] : n \in 0..MaxInfos}}
    \cup {NoInfo}

\* A download-info payload is to be normalized and searched.
InitDownloadInfo ==
    /\ client = "FabClient"
    /\ session = Construct(client)
    /\ lifecycle = "constructed"
    /\ WalkIdle
    /\ BatchIdle
    /\ cancelled = {}
    /\ \E data \in RawDownloadInfos : call_in = [op |-> "download_info", data |-> data]
    /\ call_out = [done |-> FALSE, download_info |-> <<>>, looked_up |-> FALSE,
                   manifest_url |-> None]

\* DownloadInfoResponse.from_dict(data) is called.
DownloadInfoFromDict ==
    /\ call_in.op = "download_info"
    /\ ~call_out.done
    /\ call_out' = [call_out EXCEPT !.done = TRUE,
                                    !.download_info = download_info_from_dict(call_in.data)]
    /\ UNCHANGED <<client, session, lifecycle, walk_vars, batch_vars, call_in>>

\* find_manifest_url() is called on the response.
FindManifestUrl ==
    /\ call_in.op = "download_info"
    /\ call_out.done
    /\ ~call_out.looked_up
    /\ call_out' = [call_out EXCEPT !.looked_up = TRUE,
                                    !.manifest_url = find_manifest_url(call_out.download_info)]
    /\ UNCHANGED <<client, session, lifecycle, walk_vars, batch_vars, call_in>>

NextDownloadInfo == DownloadInfoFromDict \/ FindManifestUrl

SpecDownloadInfo == InitDownloadInfo /\ [][NextDownloadInfo]_vars

\* ------------------------------------------- one client, its shared session
\* The sessions created so far (each open or closed), the session the auth
\* provider holds and the session the client holds (0: None), the tasks that
\* use the client, each with the session it took and the requests it sent,
\* and the record of every request: the session it went through and
\* whether that session was open at the time.
TaskKinds == {"get_library_pages", "download_manifest"}

SessionState(cl, kinds) ==
    [done |-> FALSE,
     sessions |-> IF cl = "FabClient" THEN <<"open">> ELSE <<>>,
     auth_session |-> IF cl = "FabClient" THEN 1 ELSE 0,
     client_session |-> IF cl = "FabClient" THEN 1 ELSE 0,
     client_closes |-> 0,
     auth_closes |-> 0,
     tpc |-> [t \in 1..Len(kinds) |-> "start"],
     tsession |-> [t \in 1..Len(kinds) |-> 0],
     sent |-> [t \in 1..Len(kinds) |-> 0],
     requests |-> {}]

SessionStatus(st) ==
    IF st.client_session = 0 THEN "none" ELSE st.sessions[st.client_session]

\* AsyncCookieAuthProvider.get_session: a new session when the provider
\* holds none or a closed one, otherwise the session it holds.
AsyncCookieAuthProvider_get_session(st) ==
    IF st.auth_session = 0 \/ st.sessions[st.auth_session] = "closed"
        THEN [st EXCEPT !.sessions = Append(@, "open"),
                        !.auth_session = Len(st.sessions) + 1]
        ELSE st

FabAsyncClient_get_session_AlwaysAsks(st) ==
    LET fresh == [st EXCEPT !.sessions = Append(@, "open"),
                            !.auth_session = Len(st.sessions) + 1]
    IN [fresh EXCEPT !.client_session = fresh.auth_session]

\* FabAsyncClient._get_session: the provider's session when the client holds
\* none, otherwise the session the client holds.  The provider's get_session
\* has no suspension point, so the test and the assignment are one step.
FabAsyncClient_get_session(st) ==
    IF st.client_session = 0
        THEN LET a == AsyncCookieAuthProvider_get_session(st)
             IN [a EXCEPT !.client_session = a.auth_session]
        ELSE st

\* AsyncCookieAuthProvider.close: closes the session it holds, if open, and
\* forgets it.
AsyncCookieAuthProvider_close(st) ==
    IF st.auth_session # 0 /\ st.sessions[st.auth_session] = "open"
        THEN [st EXCEPT !.sessions[st.auth_session] = "closed",
                        !.auth_session = 0]
        ELSE st

\* FabAsyncClient.close: closes the provider and sets _session to None.
FabAsyncClient_close(st) ==
    [AsyncCookieAuthProvider_close(st) EXCEPT !.client_session = 0]

\* FabClient.close: closes self.session and keeps the attribute.
FabClient_close(st) == [st EXCEPT !.sessions[st.client_session] = "closed"]

\* FabClient is sequential: while a download_manifest call is running
\* nothing else of the program runs.  A get_library_pages generator is
\* suspended between its pages and lets its consumer run.
Blocking(u) ==
    /\ client = "FabClient"
    /\ call_in.kinds[u] = "download_manifest"
    /\ call_out.tpc[u] = "request"

MayRun(t) == \A u \in 1..Len(call_in.kinds) : Blocking(u) => u = t

InitSession ==
    /\ client \in {"FabClient", "FabAsyncClient"}
    /\ lifecycle = "constructed"
    /\ WalkIdle
    /\ BatchIdle
    /\ cancelled = {}
    /\ \E n \in 1..MaxTasks : \E kinds \in [1..n -> TaskKinds] :
          /\ call_in = [op |-> "session", kinds |-> kinds]
          /\ call_out = SessionState(client, kinds)
    /\ session = SessionStatus(call_out)

\* A task of FabAsyncClient calls _get_session: get_library_pages once
\* before its first page, the manifest pipeline before each request.
GetSession(t) ==
    /\ call_in.op = "session"
    /\ client = "FabAsyncClient"
    /\ call_out.tpc[t] = "start"
    /\ LET st == FabAsyncClient_get_session(call_out)
       IN call_out' = [st EXCEPT !.tsession[t] = st.client_session,
                                 !.tpc[t] = "request"]
    /\ session' = SessionStatus(call_out')
    /\ UNCHANGED <<client, lifecycle, walk_vars, batch_vars, call_in>>

\* A task sends a request through the session it took; FabClient goes
\* through self.session.  A closed aiohttp session raises RuntimeError,
\* which ends get_library_pages and is turned into a failure result by
\* download_manifest; a closed requests session sends the request.
SendRequest(t) ==
    /\ call_in.op = "session"
    /\ MayRun(t)
    /\ \/ call_out.tpc[t] = "request"
       \/ client = "FabClient" /\ call_out.tpc[t] = "start"
    /\ LET s == IF client = "FabClient" THEN call_out.client_session
                                        ELSE call_out.tsession[t]
           open == call_out.sessions[s] = "open"
           n == call_out.sent[t] + 1
           pages == call_in.kinds[t] = "get_library_pages"
       IN call_out' =
            [call_out EXCEPT
                !.tsession[t] = s,
                !.sent[t] = n,
                !.requests = @ \cup {[task |-> t, session |-> s, open |-> open]},
                !.tpc[t] =
                    IF client = "FabAsyncClient" /\ ~open
                        THEN (IF pages THEN "raised" ELSE "done")
                    ELSE IF n = MaxSends THEN "done"
                    ELSE IF client = "FabClient" \/ pages THEN "request"
                    ELSE "start"]
    /\ UNCHANGED <<client, session, lifecycle, walk_vars, batch_vars, call_in>>

\* close() is called on the client.
CloseClient ==
    /\ call_in.op = "session"
    /\ \A u \in 1..Len(call_in.kinds) : ~Blocking(u)
    /\ call_out.client_closes + call_out.auth_closes < MaxCloses
    /\ LET st == IF client = "FabClient" THEN FabClient_close(call_out)
                                         ELSE FabAsyncClient_close(call_out)
       IN call_out' = [st EXCEPT !.client_closes = @ + 1]
    /\ session' = SessionStatus(call_out')
    /\ lifecycle' = "shutdown"
    /\ UNCHANGED <<client, walk_vars, batch_vars, call_in>>

\* close() is called on the auth provider of a FabAsyncClient.
CloseAuth ==
    /\ call_in.op = "session"
    /\ client = "FabAsyncClient"
    /\ call_out.client_closes + call_out.auth_closes < MaxCloses
    /\ call_out' = [AsyncCookieAuthProvider_close(call_out) EXCEPT !.auth_closes = @ + 1]
    /\ session' = SessionStatus(call_out')
    /\ UNCHANGED <<client, lifecycle, walk_vars, batch_vars, call_in>>

NextSession ==
    \/ \E t \in 1..Len(call_in.kinds) : GetSession(t)
    \/ \E t \in 1..Len(call_in.kinds) : SendRequest(t)
    \/ CloseClient
    \/ CloseAuth

SpecSession == InitSession /\ [][NextSession]_vars

\* ---------------------------------------------------------- download_asset
\* What download_manifest can return to download_asset: a success with its
\* file, a failure with an error message, a failure whose message is empty.
ManifestResults ==
    {Success(Path(<<"k">>, 1), 1),
     Failure("No Unreal Engine format found", 0),
     Failure("", 0)}

\* The methods of the ProgressCallback handed to download_asset; the
\* callback raises in one of them, or never.
CallbackMethods == {"on_start", "on_progress", "on_complete", "on_error"}

\* CoreDownloadResult
NoCoreResult == [set |-> FALSE, success |-> FALSE, files |-> <<>>, error |-> ""]
CoreSuccess(path) == [set |-> TRUE, success |-> TRUE, files |-> <<path>>, error |-> ""]
CoreFailure(msg) == [set |-> TRUE, success |-> FALSE, files |-> <<>>, error |-> msg]

\* The call of a callback method: recorded when a callback was given.
Called(method) == IF call_in.has_callback THEN <<method>> ELSE <<>>
Raises(method) == call_in.has_callback /\ call_in.raises_in = method

\* download_asset(asset_uid, output_dir, progress_callback): the library
\* holds the asset or not, and download_manifest will return manifest_result
\* unless the callback raises in on_progress.
InitDownloadAsset ==
    /\ client \in Clients
    /\ session = Construct(client)
    /\ lifecycle = "constructed"
    /\ WalkIdle
    /\ BatchIdle
    /\ cancelled = {}
    /\ \E found \in BOOLEAN, r \in ManifestResults, cb \in BOOLEAN,
          m \in CallbackMethods \cup {""} :
          /\ (~cb => m = "")
          /\ call_in = [op |-> "download_asset", asset_found |-> found,
                        manifest_result |-> r, has_callback |-> cb, raises_in |-> m]
    /\ call_out = [done |-> FALSE, dpc |-> "get_asset", calls |-> <<>>,
                   manifest_result |-> NoResult, raised |-> FALSE, exc |-> "",
                   result |-> NoCoreResult]

\* asset = self.get_asset(asset_uid): FabNotFoundError leaves download_asset.
GetAsset ==
    /\ call_in.op = "download_asset"
    /\ call_out.dpc = "get_asset"
    /\ call_out' = IF call_in.asset_found
                     THEN [call_out EXCEPT !.dpc = "on_start"]
                     ELSE [call_out EXCEPT !.dpc = "ended", !.done = TRUE,
                                           !.raised = TRUE, !.exc = "FabNotFoundError"]
    /\ UNCHANGED <<client, session, lifecycle, walk_vars, batch_vars, call_in>>

\* progress_callback.on_start(None), before the try.
OnStart ==
    /\ call_in.op = "download_asset"
    /\ call_out.dpc = "on_start"
    /\ call_out' = IF Raises("on_start")
                     THEN [call_out EXCEPT !.calls = @ \o Called("on_start"),
                                           !.dpc = "ended", !.done = TRUE,
                                           !.raised = TRUE, !.exc = "callback error"]
                     ELSE [call_out EXCEPT !.calls = @ \o Called("on_start"),
                                           !.dpc = "download_manifest"]
    /\ UNCHANGED <<client, session, lifecycle, walk_vars, batch_vars, call_in>>

\* manifest_result = self.download_manifest(asset, output_path,
\* on_progress=simple_progress): in FabClient the step messages reach
\* on_progress, whose exception download_manifest turns into a failure
\* result; the simple_progress of FabAsyncClient does nothing.
DownloadManifest ==
    /\ call_in.op = "download_asset"
    /\ call_out.dpc = "download_manifest"
    /\ call_out' = [call_out EXCEPT
                       !.calls = IF client = "FabClient" THEN @ \o Called("on_progress")
                                                         ELSE @,
                       !.manifest_result = IF client = "FabClient" /\ Raises("on_progress")
                                             THEN CallbackFailure
                                             ELSE call_in.manifest_result,
                       !.dpc = "on_complete"]
    /\ UNCHANGED <<client, session, lifecycle, walk_vars, batch_vars, call_in>>

\* progress_callback.on_complete(), called after download_manifest returned
\* whatever its result; its exception reaches the except clause.
OnComplete ==
    /\ call_in.op = "download_asset"
    /\ call_out.dpc = "on_complete"
    /\ call_out' = IF Raises("on_complete")
                     THEN [call_out EXCEPT !.calls = @ \o Called("on_complete"),
                                           !.dpc = "except", !.exc = "callback error"]
                     ELSE [call_out EXCEPT !.calls = @ \o Called("on_complete"),
                                           !.dpc = "convert"]
    /\ UNCHANGED <<client, session, lifecycle, walk_vars, batch_vars, call_in>>

\* The conversion of the ManifestDownloadResult to the CoreDownloadResult
\* that is returned.
Convert ==
    /\ call_in.op = "download_asset"
    /\ call_out.dpc = "convert"
    /\ LET r == call_out.manifest_result
       IN call_out' =
            [call_out EXCEPT
                !.dpc = "ended", !.done = TRUE,
                !.result = IF r.success /\ ~r.file_path.none
                             THEN CoreSuccess(r.file_path)
                           ELSE IF r.error.none \/ r.error.msg = ""
                             THEN CoreFailure("Unknown error")
                           ELSE CoreFailure(r.error.msg)]
    /\ UNCHANGED <<client, session, lifecycle, walk_vars, batch_vars, call_in>>

\* except Exception as e: on_error(e), then the failure result with str(e);
\* an exception of on_error leaves download_asset.
Except ==
    /\ call_in.op = "download_asset"
    /\ call_out.dpc = "except"
    /\ call_out' = IF Raises("on_error")
                     THEN [call_out EXCEPT !.calls = @ \o Called("on_error"),
                                           !.dpc = "ended", !.done = TRUE,
                                           !.raised = TRUE]
                     ELSE [call_out EXCEPT !.calls = @ \o Called("on_error"),
                                           !.dpc = "ended", !.done = TRUE,
                                           !.result = CoreFailure(call_out.exc)]
    /\ UNCHANGED <<client, session, lifecycle, walk_vars, batch_vars, call_in>>

NextDownloadAsset == GetAsset \/ OnStart \/ DownloadManifest \/ OnComplete \/ Convert \/ Except

SpecDownloadAsset == InitDownloadAsset /\ [][NextDownloadAsset]_vars

\* ------------------------------------ the earlier client's download_manifests
\* How the earlier client's download_manifest ends for an asset: it returns
\* the parsed manifest, or it raises: ValueError for a missing format,
\* download info or manifest URL, the typed error of a metadata request, the
\* requests exception of the manifest fetch, the parser's or the file
\* system's exception.
LegacyOutcomes ==
    {[raised |-> FALSE, exc |-> "", msg |-> ""]}
    \cup {[raised |-> TRUE, exc |-> "ValueError", msg |-> m] :
            m \in {"No Unreal Engine format found", "Download info not found",
                   "Manifest URL not found in download info"}}
    \cup {[raised |-> TRUE, exc |-> e, msg |-> ""] :
            e \in {"FabAuthenticationError", "FabAPIError", "FabNetworkError",
                   "HTTPError", "JSONDecodeError", "OSError"}}

\* The ParsedManifest of an asset.
ManifestOf(asset) == [asset_uid |-> asset.uid]

LegacyNote(cb, asset, what) == IF cb THEN <<[asset_uid |-> asset.uid, what |-> what]>> ELSE <<>>

TryDownloadManifest_Reraises(st, asset, out, cb) ==
    IF out.raised
        THEN [st EXCEPT !.next = @ + 1,
                        !.outcomes = Append(@, out),
                        !.notes = @ \o LegacyNote(cb, asset, "starting"),
                        !.raised = TRUE,
                        !.done = TRUE]
        ELSE [st EXCEPT !.next = @ + 1,
                        !.outcomes = Append(@, out),
                        !.manifests = Append(@, ManifestOf(asset)),
                        !.notes = @ \o LegacyNote(cb, asset, "starting")
                                    \o LegacyNote(cb, asset, "completed")]

\* One iteration of the loop of download_manifests: "starting", then the
\* try: the manifest is appended and "completed" notified, or the except
\* clause notifies "failed" and drops the exception.
TryDownloadManifest(st, asset, out, cb) ==
    IF out.raised
        THEN [st EXCEPT !.next = @ + 1,
                        !.outcomes = Append(@, out),
                        !.notes = @ \o LegacyNote(cb, asset, "starting")
                                    \o LegacyNote(cb, asset, "failed")]
        ELSE [st EXCEPT !.next = @ + 1,
                        !.outcomes = Append(@, out),
                        !.manifests = Append(@, ManifestOf(asset)),
                        !.notes = @ \o LegacyNote(cb, asset, "starting")
                                    \o LegacyNote(cb, asset, "completed")]

\* download_manifests(assets, output_dir, on_progress) of the earlier
\* client, with or without a progress callback (one that returns normally).
InitLegacy ==
    /\ client = "FabClient"
    /\ session = Construct(client)
    /\ lifecycle = "constructed"
    /\ WalkIdle
    /\ BatchIdle
    /\ cancelled = {}
    /\ \E n \in 1..MaxAssets, cb \in BOOLEAN :
          call_in = [op |-> "legacy_download_manifests",
                     assets |-> [i \in 1..n |-> AssetOf(i)],
                     on_progress |-> cb]
    /\ call_out = [done |-> FALSE, raised |-> FALSE, next |-> 1,
                   manifests |-> <<>>, outcomes |-> <<>>, notes |-> <<>>,
                   returned |-> <<>>]

\* The loop body for the next asset.
LegacyNextAsset ==
    /\ call_in.op = "legacy_download_manifests"
    /\ ~call_out.done
    /\ call_out.next <= Len(call_in.assets)
    /\ \E out \in LegacyOutcomes :
          call_out' = TryDownloadManifest(call_out, call_in.assets[call_out.next],
                                          out, call_in.on_progress)
    /\ UNCHANGED <<client, session, lifecycle, walk_vars, batch_vars, call_in>>

\* return manifests
LegacyReturn ==
    /\ call_in.op = "legacy_download_manifests"
    /\ ~call_out.done
    /\ call_out.next > Len(call_in.assets)
    /\ call_out' = [call_out EXCEPT !.done = TRUE, !.returned = call_out.manifests]
    /\ UNCHANGED <<client, session, lifecycle, walk_vars, batch_vars, call_in>>

NextLegacy == LegacyNextAsset \/ LegacyReturn

SpecLegacy == InitLegacy /\ [][NextLegacy]_vars

\* ================================================================== claims
Finished == pc \in {"done", "returned", "raised"}

\* Every page of the chain but the last carries a continuation cursor.
ChainComplete ==
    \A k \in 1..Len(server) :
        (server[k].cursors.next.kind = "string" /\ server[k].cursors.next.str # 0)
            <=> k < Len(server)

\* The raw page carries a cursors.next that is present, non-null, non-empty.
RawHasNext(data) ==
    /\ data.cursors.kind = "object"
    /\ data.cursors.next.kind = "string"
    /\ data.cursors.next.str # 0

Count(seq, x) == Cardinality({i \in 1..Len(seq) : seq[i] = x})

\* C1: on a finite chain of n pages, each but the last carrying a cursor, the
\* walk ends; when it ends without an error it has issued exactly n requests,
\* request k asked for page k, and the n pages were yielded in chain order.
C1_WalkYieldsEveryPageOnce ==
    /\ [](ChainComplete =>
            /\ Len(requests) <= Len(server)
            /\ \A k \in 1..Len(requests) : PageIndex(requests[k]) = k
            /\ (pc \in {"done", "returned"} =>
                   /\ Len(requests) = Len(server)
                   /\ Len(yielded) = Len(server)
                   /\ \A k \in 1..Len(server) : yielded[k].results = server[k].results))
    /\ <>(pc \in {"returned", "raised"})

C1_Witness ==
    /\ ChainComplete
    /\ Len(server) >= 3
    /\ pc = "done"
    /\ Len(yielded) = Len(server)

\* C2: the first request carries sort_by and no cursor; request k >= 2
\* carries the cursors.next of the page answered to request k - 1, and the
\* same sort_by.
C2_CursorThreading ==
    \A k \in 1..Len(requests) :
        /\ requests[k].sort_by = sort_by
        /\ k = 1 => requests[k].cursor = None
        /\ k >= 2 =>
              /\ RawHasNext(answers[k - 1].data)
              /\ requests[k].cursor = Str(answers[k - 1].data.cursors.next.str)

C2_Witness ==
    /\ Len(requests) >= 3
    /\ requests[3].cursor = Str(3)
    /\ requests[3].sort_by = "title"

\* C3: after page k the walk goes on if and only if the raw page k carries a
\* cursors.next that is present, non-null and non-empty.
C3_ContinuesIffCursor ==
    \A k \in 1..Len(yielded) :
        (k < Len(yielded) \/ pc # "yielded") =>
            ((Len(requests) > k \/ (pc = "fetch" /\ k = Len(yielded)))
                <=> RawHasNext(answers[k].data))

\* A walk that ended on a page with a top-level next but no cursors object,
\* while the server holds a further page.
C3_Witness ==
    /\ pc = "done"
    /\ Len(server) > Len(requests)
    /\ answers[Len(answers)].data.next.kind = "string"
    /\ answers[Len(answers)].data.cursors.kind = "missing"

\* C4: every pause lies strictly between two successive requests: it follows
\* a request, the next event after it is a request, every request but the
\* first directly follows a pause, and a finished walk of n requests paused
\* n - 1 times.
C4_PausesOnlyBetweenRequests ==
    /\ \A i \in 1..Len(events) :
          /\ events[i] = "sleep" =>
                /\ \E j \in 1..(i - 1) : events[j] = "request"
                /\ i < Len(events) => events[i + 1] = "request"
                /\ i = Len(events) => pc = "fetch"
          /\ (events[i] = "request" /\ i > 1) => events[i - 1] = "sleep"
    /\ (Finished /\ Len(requests) > 0) =>
          Count(events, "sleep") = Count(events, "request") - 1

C4_Witness ==
    /\ pc = "done"
    /\ Count(events, "request") = 3
    /\ Count(events, "sleep") = 2

TypedErrors ==
    {"FabAuthenticationError", "FabNotFoundError", "FabAPIError", "FabNetworkError"}

FailedNon2xx(ans) ==
    ans.kind # "response" \/ ~(ans.status >= 200 /\ ans.status < 300)

Failed4xx5xx(ans) ==
    ans.kind # "response" \/ (ans.status >= 400 /\ ans.status < 600)

RaisedBy(k) == IF k = Len(answers) /\ pc = "raised" THEN error ELSE NoError

RECURSIVE ExpectedAssets(_)
ExpectedAssets(k) ==
    IF k = 0 THEN <<>>
    ELSE ExpectedAssets(k - 1) \o
         [j \in 1..Len(answers[k].data.results) |->
             [uid |-> answers[k].data.results[j].uid,
              status |-> answers[k].data.results[j].status]]

\* C7: the Library get_library returns holds the assets of every fetched
\* page, in page order and intra-page order, each exactly once.
C7_LibraryIsConcatenation ==
    \A i \in 1..Len(library) : library[i].assets = ExpectedAssets(Len(answers))

C7_Witness ==
    /\ pc = "returned"
    /\ Len(yielded) >= 3
    /\ \E k \in 1..2 : Len(yielded[k].results) >= 1 /\ Len(yielded[k + 1].results) = 2
    /\ Len(library[1].assets) >= 3

\* C8: every Library produced (by get_library, filter or filter_by_status)
\* has total_count equal to the length of its asset list.
C8_TotalCountIsLength ==
    /\ \A i \in 1..Len(library) : library[i].total_count = Len(library[i].assets)
    /\ \A i \in 1..Len(derived) : derived[i].total_count = Len(derived[i].assets)

C8_Witness ==
    /\ Len(library) = 1
    /\ Len(derived) = 1
    /\ Len(derived[1].assets) > 0
    /\ Len(derived[1].assets) < Len(library[1].assets)

\* The endpoints asset i has requested, in the order of the requests.
RequestsOf(i) ==
    LET reqs == SelectSeq(alog[i], LAMBDA e : e.ev = "request")
    IN [k \in 1..Len(reqs) |-> reqs[k].what]

\* The answer to the request asset i sent to the endpoint, if it sent one.
Answered(i, endpoint) == \E k \in 1..Len(aanswers[i]) : aanswers[i][k].stage = endpoint
AnswerTo(i, endpoint) ==
    aanswers[i][CHOOSE k \in 1..Len(aanswers[i]) : aanswers[i][k].stage = endpoint]

Is200(a) == a.kind = "response" /\ a.status = 200
Is404(a) == a.kind = "response" /\ a.status = 404

\* No entry of the download-info list is a manifest entry with a non-empty URL.
NoManifestUrl(info) ==
    \A k \in 1..Len(info.items) :
        info.items[k].type = "manifest" =>
            ~(info.items[k].downloadUrl.kind = "string" /\ info.items[k].downloadUrl.str # 0)

\* C9: a benign absence ends the asset's pipeline with a returned failure
\* result and never with an exception: 404 or an empty list at format
\* discovery gives "No Unreal Engine format found", 404 at download-info
\* gives "Download info not found", a download-info list without a manifest
\* URL gives "Manifest URL not found in download info"; the batch never
\* raises, and a 2-asset batch whose first asset's format discovery 404s and
\* whose second asset's manifest fetch succeeds returns [Failure, Success].
C9_BenignAbsenceIsFailureResult ==
    /\ bpc # "raised"
    /\ \A i \in 1..Len(assets) :
        task_result[i].set =>
            /\ (/\ Answered(i, "asset-formats")
                /\ \/ Is404(AnswerTo(i, "asset-formats"))
                   \/ /\ Is200(AnswerTo(i, "asset-formats"))
                      /\ AnswerTo(i, "asset-formats").formats.items = <<>>)
                  => task_result[i] = Failure("No Unreal Engine format found", 0)
            /\ (Answered(i, "download-info") /\ Is404(AnswerTo(i, "download-info")))
                  => task_result[i] = Failure("Download info not found", 0)
            /\ (/\ Answered(i, "download-info")
                /\ Is200(AnswerTo(i, "download-info"))
                /\ NoManifestUrl(AnswerTo(i, "download-info").info))
                  => task_result[i] = Failure("Manifest URL not found in download info", 0)
    /\ (/\ bpc = "returned"
        /\ Len(assets) = 2
        /\ Is404(AnswerTo(1, "asset-formats"))
        /\ Answered(2, "manifest")
        /\ Is200(AnswerTo(2, "manifest")))
          => results = <<Failure("No Unreal Engine format found", 0),
                         Success(Path(sanitize_filename(assets[2].title), assets[2].uid),
                                 AnswerTo(2, "manifest").size)>>

C9_Witness ==
    /\ bpc = "returned"
    /\ Len(assets) = 2
    /\ Is404(AnswerTo(1, "asset-formats"))
    /\ results[1] = Failure("No Unreal Engine format found", 0)
    /\ results[2].success
    /\ results[2].size.n = 64

IsPrefix(a, b) == Len(a) <= Len(b) /\ \A k \in 1..Len(a) : a[k] = b[k]

\* C10: an asset's requests are a prefix of asset-formats, download-info,
\* manifest; after a format discovery without a file uid no further request
\* is issued for the asset, and after an absent download-info or one without
\* a manifest URL no manifest fetch is issued.
C10_StagesInOrderAndShortCircuit ==
    \A i \in 1..Len(assets) :
        /\ IsPrefix(RequestsOf(i), <<"asset-formats", "download-info", "manifest">>)
        /\ (/\ Answered(i, "asset-formats")
            /\ \/ Is404(AnswerTo(i, "asset-formats"))
               \/ task_result[i] = Failure("No Unreal Engine format found", 0))
              => RequestsOf(i) = <<"asset-formats">>
        /\ (/\ Answered(i, "download-info")
            /\ \/ Is404(AnswerTo(i, "download-info"))
               \/ /\ Is200(AnswerTo(i, "download-info"))
                  /\ NoManifestUrl(AnswerTo(i, "download-info").info))
              => RequestsOf(i) = <<"asset-formats", "download-info">>

C10_Witness ==
    /\ bpc = "returned"
    /\ \E i \in 1..Len(assets) :
        /\ RequestsOf(i) = <<"asset-formats", "download-info", "manifest">>
        /\ \E j \in 1..Len(assets) :
            /\ RequestsOf(j) = <<"asset-formats", "download-info">>
            /\ task_result[j] = Failure("Download info not found", 0)

\* The answer k of asset i in the shape the stage operators take.
StageAnswer(i, k) ==
    LET a == aanswers[i][k]
    IN IF a.stage = "asset-formats"
         THEN [kind |-> a.kind, status |-> a.status, body |-> a.body, data |-> a.formats]
       ELSE IF a.stage = "download-info"
         THEN [kind |-> a.kind, status |-> a.status, body |-> a.body, data |-> a.info]
       ELSE [kind |-> a.kind, status |-> a.status, size |-> a.size]

\* A transport-level failure: a timeout, a connection failure, 401/403 or any
\* other HTTP error status but 404.
TransportFailure(a) ==
    \/ a.kind \in {"timeout", "connection"}
    \/ a.kind = "response" /\ a.status # 404 /\ a.status >= 400 /\ a.status < 600

\* C11 as stated: a transport-level failure at any of the three stages leaves
\* download_manifest as an exception and is never returned as a failure
\* result.
C11_Original ==
    \A i \in 1..Len(assets) :
        (/\ task_result[i].set
         /\ \E k \in 1..Len(aanswers[i]) : TransportFailure(aanswers[i][k]))
            => task_result[i].raised

\* The exception the stage raised on answer k of asset i.
StageException(i, k) ==
    LET a == aanswers[i][k]
    IN IF a.stage = "asset-formats" THEN discover_file_uid(client, StageAnswer(i, k))
       ELSE IF a.stage = "download-info" THEN get_download_info(client, StageAnswer(i, k))
       ELSE fetch_manifest(client, StageAnswer(i, k))

\* C12: when a stage of asset i's pipeline fails with an exception, the batch
\* does not raise, asset i's result is a failure whose error is the message
\* of that exception, and the batch returns one result per asset, every
\* other asset having run its pipeline.
C12_ExceptionIsRecordedAndBatchGoesOn ==
    /\ \A i \in 1..Len(assets) :
        \A k \in 1..Len(aanswers[i]) :
            StageException(i, k).raised =>
                /\ bpc # "raised"
                /\ k = Len(aanswers[i])
                /\ task_result[i] = Failure(StageException(i, k).exc.msg,
                                            StageException(i, k).exc.code)
    /\ bpc = "returned" =>
          /\ Len(results) = Len(assets)
          /\ \A j \in 1..Len(assets) :
                /\ results[j].set
                /\ ~results[j].raised
                /\ Len(RequestsOf(j)) >= 1

C12_Witness ==
    /\ bpc = "returned"
    /\ Len(assets) = 2
    /\ AnswerTo(1, "asset-formats").kind = "timeout"
    /\ results[1] = Failure("Request timeout", 0)
    /\ RequestsOf(2) = <<"asset-formats", "download-info", "manifest">>
    /\ results[2].success

IsAuthFailure(a) == a.kind = "response" /\ a.status \in {401, 403}

\* C13 as stated: download_manifests raises only when some pipeline request
\* was answered 401 or 403 (never for an asset without a download path), and
\* it never returns normally when a pipeline request was answered 401 or 403.
C13_Original ==
    /\ bpc = "raised" =>
          \E i \in 1..Len(assets) : \E k \in 1..Len(aanswers[i]) :
              IsAuthFailure(aanswers[i][k])
    /\ bpc = "returned" =>
          \A i \in 1..Len(assets) : \A k \in 1..Len(aanswers[i]) :
              ~IsAuthFailure(aanswers[i][k])

\* C14: download_manifests returns one result per input asset, the i-th being
\* the outcome of the i-th asset's pipeline (a success names the i-th asset's
\* file), in FabClient and in FabAsyncClient, whatever the order in which the
\* per-asset calls ended.
C14_ResultsInInputOrder ==
    bpc = "returned" =>
        /\ Len(results) = Len(assets)
        /\ \A i \in 1..Len(assets) :
              /\ results[i] = task_result[i]
              /\ results[i].success =>
                    results[i].file_path =
                        Path(sanitize_filename(assets[i].title), assets[i].uid)

\* The second asset's task ended before the first one's.
C14_Witness ==
    /\ bpc = "returned"
    /\ client = "FabAsyncClient"
    /\ Len(assets) = 2
    /\ first_completed = 2
    /\ results[1].success
    /\ ~results[2].success

\* What step k of asset i's pipeline ends with in client cl on the answer the
\* asset got: a result, or NoResult when the pipeline goes on.
StepResult(cl, i, k) ==
    LET a == aanswers[i][k]
    IN IF a.stage = "asset-formats"
         THEN AfterDiscover(discover_file_uid(cl, StageAnswer(i, k))).result
       ELSE IF a.stage = "download-info"
         THEN AfterDownloadInfo(get_download_info(cl, StageAnswer(i, k))).result
       ELSE AfterFetch(assets[i], fetch_manifest(cl, StageAnswer(i, k)))

\* The result of download_manifest in client cl when its requests are
\* answered as asset i's were and every notification returns normally.
RECURSIVE PipelineResult(_, _, _)
PipelineResult(cl, i, k) ==
    IF k > Len(aanswers[i]) THEN NoResult
    ELSE IF StepResult(cl, i, k).set THEN StepResult(cl, i, k)
    ELSE PipelineResult(cl, i, k + 1)

\* C15 as stated: with a callback that raises at a notification, the batch
\* call does not raise, and every asset's call issues the requests and ends
\* with the result it has when the callback returns normally.
C15_Original ==
    /\ bpc # "raised"
    /\ \A i \in 1..Len(assets) :
          task_result[i].set =>
              /\ Len(RequestsOf(i)) >= 1
              /\ task_result[i] = PipelineResult(client, i, 1)

OtherClient == CHOOSE c \in Clients : c # client

\* C16 as stated: on the same answers the other client returns the same
\* result for every asset, issues every request the same way (through the
\* authenticated session or not), and raises the same error, or none, on
\* every library-search answer.
C16_Original ==
    /\ \A i \in 1..Len(assets) :
          /\ task_result[i].set => task_result[i] = PipelineResult(OtherClient, i, 1)
          /\ \A k \in 1..Len(alog[i]) :
                alog[i][k].ev = "request" =>
                    alog[i][k].via = Via(OtherClient, alog[i][k].what)
    /\ \A k \in 1..Len(answers) :
          LibrarySearchOutcome(client, answers[k])
              = LibrarySearchOutcome(OtherClient, answers[k])

InPipeline(j) == apc[j] \in {"discover", "pause1", "download_info", "pause2", "fetch"}

\* C18: a cancelled task gets no result (the cancellation is not turned into
\* a failure result), the request or pause it was suspended in is the last
\* entry of its history and it issues nothing afterwards; the cancellation
\* changes nothing of any other asset, every other asset that is still in its
\* pipeline can take its next step, and every asset that finishes has the
\* result its own answers give.
C18_CancellationIsLocal ==
    /\ [](\A i \in 1..Len(assets) :
            /\ i \in cancelled =>
                  /\ apc[i] = "cancelled"
                  /\ ~task_result[i].set
                  /\ alog[i] # <<>>
                  /\ alog[i][Len(alog[i])].ev \in {"request", "sleep"}
            /\ (cancelled # {} /\ InPipeline(i)) =>
                  ENABLED (Discover(i) \/ Pause(i) \/ GetDownloadInfo(i) \/ FetchManifest(i))
            /\ apc[i] = "finished" => task_result[i] = PipelineResult(client, i, 1))
    /\ [][\A i \in 1..Len(assets) :
            /\ i \in cancelled =>
                  /\ alog'[i] = alog[i]
                  /\ aanswers'[i] = aanswers[i]
                  /\ task_result'[i] = task_result[i]
            /\ (i \in cancelled' /\ i \notin cancelled) =>
                  \A j \in 1..Len(assets) \ {i} :
                      /\ apc'[j] = apc[j]
                      /\ alog'[j] = alog[j]
                      /\ aanswers'[j] = aanswers[j]
                      /\ task_result'[j] = task_result[j]]_vars

\* The first asset's task was cancelled in its download-info request; the
\* second asset's manifest was downloaded afterwards.
C18_Witness ==
    /\ Len(assets) = 2
    /\ first_completed = 1
    /\ cancelled = {1}
    /\ RequestsOf(1) = <<"asset-formats", "download-info">>
    /\ Len(aanswers[1]) = 1
    /\ task_result[2].success

IsSuccessOutcome(r) == r.success /\ ~r.file_path.none /\ ~r.size.none /\ r.error.none
IsFailureOutcome(r) == ~r.success /\ r.file_path.none /\ r.size.none /\ ~r.error.none

FoundManifestUrl(i) ==
    find_manifest_url(download_info_from_dict(AnswerTo(i, "download-info").info))

\* C20: a manifest fetch is issued only to the URL found in the asset's
\* download info and only if validate_url accepts it; when the URL found
\* fails validation the call ends with the failure "Invalid manifest URL"
\* and no manifest fetch is issued.
C20_InvalidUrlIsNotFetched ==
    \A i \in 1..Len(assets) :
        /\ \A k \in 1..Len(alog[i]) :
              (alog[i][k].ev = "request" /\ alog[i][k].what = "manifest") =>
                  /\ Answered(i, "download-info")
                  /\ FoundManifestUrl(i) = Str(alog[i][k].code)
                  /\ validate_url(Str(alog[i][k].code))
        /\ (/\ Answered(i, "download-info")
            /\ Is200(AnswerTo(i, "download-info"))
            /\ Truthy(FoundManifestUrl(i))
            /\ ~validate_url(FoundManifestUrl(i)))
              => /\ RequestsOf(i) = <<"asset-formats", "download-info">>
                 /\ task_result[i] = Failure("Invalid manifest URL", FoundManifestUrl(i).str)

C20_Witness ==
    /\ bpc = "returned"
    /\ \E i \in 1..Len(assets) :
          /\ results[i] = Failure("Invalid manifest URL", 2)
          /\ RequestsOf(i) = <<"asset-formats", "download-info">>
    /\ \E j \in 1..Len(assets) :
          \E k \in 1..Len(alog[j]) :
              alog[j][k].ev = "request" /\ alog[j][k].what = "manifest" /\ alog[j][k].code = 1

\* The requests and pauses of asset i, in the order they happened.
RequestsAndPauses(i) ==
    LET evs == SelectSeq(alog[i], LAMBDA e : e.ev \in {"request", "sleep"})
    IN [k \in 1..Len(evs) |-> evs[k].ev]

\* C21: in an asset's pipeline requests and pauses alternate, beginning with
\* a request, so every two consecutive requests are separated by exactly one
\* pause; a run that reached the manifest fetch took exactly two pauses, and
\* a run that ended took no pause after its last request.
C21_OnePauseBetweenStages ==
    \A i \in 1..Len(assets) :
        LET rp == RequestsAndPauses(i)
        IN /\ \A k \in 1..Len(rp) : rp[k] = IF k % 2 = 1 THEN "request" ELSE "sleep"
           /\ (Len(RequestsOf(i)) = 3) => Count(rp, "sleep") = 2
           /\ (apc[i] = "finished" /\ Len(rp) > 0) => rp[Len(rp)] = "request"

\* One asset ran all three stages, another ended at its download-info
\* request after a single pause.
C21_Witness ==
    /\ bpc = "returned"
    /\ Len(assets) = 2
    /\ RequestsAndPauses(1) = <<"request", "sleep", "request", "sleep", "request">>
    /\ RequestsAndPauses(2) = <<"request", "sleep", "request">>

\* C22: load raises, and returns no ParsedManifest, for a result that is a
\* failure, for a result without file_path and for a file that does not
\* exist (any more); the file is read and parsed only for a successful
\* result whose file exists.
C22_LoadRaisesUnlessSuccessAndFile ==
    (call_in.op = "load" /\ call_out.done) =>
        /\ (\/ ~call_in.result.success
            \/ call_in.result.file_path.none
            \/ ~call_in.file.exists)
              => /\ call_out.raised
                 /\ call_out.exc = "ValueError"
                 /\ call_out.value.none
        /\ call_out.read =>
              /\ call_in.result.success
              /\ ~call_in.result.file_path.none
              /\ call_in.file.exists
        /\ ~call_out.value.none => call_out.read

\* A successful result whose file was deleted before load was called.
C22_Witness ==
    /\ call_in.op = "load"
    /\ call_out.done
    /\ call_in.result.success
    /\ ~call_in.result.file_path.none
    /\ call_in.file.removed
    /\ call_out.raised

HasUnderscore(s) == \E k \in 1..Len(s) : s[k] = "_"

\* C23 as stated: the output path of an asset differs from the output path
\* of every asset with another uid.
C23_Original ==
    (call_in.op = "save" /\ call_out.done) =>
        \A b \in FileAssets :
            b.uid # call_in.asset.uid => output_filename(b) # call_out.output_path

\* C23: for assets whose uids hold no underscore, the output path of an
\* asset differs from the output path of every asset with another uid, so
\* no download into the same directory overwrites another asset's manifest.
C23_DistinctPaths ==
    (call_in.op = "save" /\ call_out.done /\ ~HasUnderscore(call_in.asset.uid)) =>
        \A b \in FileAssets :
            (b.uid # call_in.asset.uid /\ ~HasUnderscore(b.uid))
                => output_filename(b) # call_out.output_path

\* The manifest of an asset was saved whose sanitized title holds an
\* underscore and is also the sanitized title of an asset with another uid.
C23_Witness ==
    /\ call_in.op = "save"
    /\ call_out.done
    /\ ~HasUnderscore(call_in.asset.uid)
    /\ HasUnderscore(sanitize_filename(call_in.asset.title))
    /\ \E b \in FileAssets :
          /\ b.uid # call_in.asset.uid
          /\ ~HasUnderscore(b.uid)
          /\ sanitize_filename(b.title) = sanitize_filename(call_in.asset.title)

\* The outcome of the first to_assets call on the page.
Normalized == call_in.op = "to_assets" /\ call_out.done
FirstOut == call_out.outs[1]
NonEmptyStr(v) == v.type = "str" /\ v.v # 0

\* C24 as stated: every asset to_assets returns has a non-empty uid,
\* whatever the raw result, also one without a uid member.
C24_Original ==
    (Normalized /\ ~FirstOut.raised) =>
        \A j \in 1..Len(FirstOut.assets) : NonEmptyStr(FirstOut.assets[j].uid)

\* What the claim says a raw tag list becomes: a string tag itself, an
\* object tag its slug, nothing for any other entry, in order.
RECURSIVE TagsAsStated(_)
TagsAsStated(raw_tags) ==
    IF raw_tags = <<>> THEN <<>>
    ELSE (CASE raw_tags[1].kind = "string" -> <<PyStr(raw_tags[1].str)>>
            [] raw_tags[1].kind = "object" -> <<Get(raw_tags[1].slug, PyStr(0))>>
            [] OTHER -> <<>>) \o TagsAsStated(Tail(raw_tags))

\* C25 as stated: the tags of every listing are the string tags and the
\* slugs of the object tags of the raw list, in order, and every one of
\* them is a string.
C25_Original ==
    (Normalized /\ ~FirstOut.raised) =>
        \A j \in 1..Len(FirstOut.assets) :
            LET a == FirstOut.assets[j]
            IN ~a.listing.none =>
                  /\ a.listing.tags = TagsAsStated(call_in.results[j].listing.tags.items)
                  /\ \A k \in 1..Len(a.listing.tags) : a.listing.tags[k].type = "str"

IsoWith(ts, suffix) == [ts EXCEPT !.suffix = suffix]
Unparseable(ts) == ts.kind \in {"number", "not_a_date"}

\* What C26 says of one raw timestamp and the normalized one: a string with
\* a trailing Z gives the instant of the same string with +00:00, a value
\* that cannot be parsed gives an absent timestamp.
TimestampAsStated(raw, parsed) ==
    /\ (raw.kind = "iso" /\ raw.suffix = "Z") =>
          /\ ~parsed.none
          /\ parsed = fromisoformat(IsoWith(raw, "+00:00")).value
    /\ Unparseable(raw) => parsed.none

\* C26: no createdAt / lastUpdatedAt value makes to_assets raise (a call
\* that raised was given a null tags member), and every asset returned has
\* its timestamps parsed as stated.
C26_TimestampNeverAborts ==
    Normalized =>
        /\ FirstOut.raised =>
              \E j \in 1..Len(call_in.results) :
                  call_in.results[j].listing.tags.kind = "null"
        /\ ~FirstOut.raised =>
              /\ Len(FirstOut.assets) = Len(call_in.results)
              /\ \A j \in 1..Len(FirstOut.assets) :
                    LET raw == call_in.results[j]
                        a == FirstOut.assets[j]
                    IN /\ TimestampAsStated(raw.createdAt, a.created_at)
                       /\ ~a.listing.none =>
                             TimestampAsStated(raw.listing.lastUpdatedAt,
                                               a.listing.last_updated_at)

\* A page with a createdAt that is no date and a lastUpdatedAt with a
\* trailing Z was normalized.
C26_Witness ==
    /\ Normalized
    /\ ~FirstOut.raised
    /\ Len(FirstOut.assets) = 2
    /\ call_in.results[1].createdAt.kind = "not_a_date"
    /\ FirstOut.assets[1].created_at.none
    /\ call_in.results[2].listing.lastUpdatedAt = Iso(2, "Z")
    /\ FirstOut.assets[2].listing.last_updated_at =
          [none |-> FALSE, instant |-> 2, aware |-> TRUE]

FormatsNormalized == call_in.op = "asset_formats" /\ call_out.done

\* C27 as stated: a bare list gives that list, a dict holding a list under
\* assetFormats gives that list, any other input gives the empty list.
C27_Original ==
    FormatsNormalized =>
        call_out.formats = IF call_in.data.shape \in {"list", "dict_assetFormats"}
                             THEN call_in.data.items
                             ELSE <<>>

\* C27: a bare list gives that list, a dict holding a list under
\* assetFormats gives that list, a dict without that key gives the list
\* holding that dict alone, and a value that is neither list nor dict gives
\* the empty list.
C27_NormalizesFormats ==
    FormatsNormalized =>
        /\ call_in.data.shape \in {"list", "dict_assetFormats"} =>
              call_out.formats = call_in.data.items
        /\ call_in.data.shape = "dict" =>
              /\ Len(call_out.formats) = 1
              /\ call_out.formats[1] = call_in.data.items[1]
        /\ call_in.data.shape = "other" => call_out.formats = <<>>

\* A dict without assetFormats that is itself an Unreal Engine format
\* object was normalized, and its file uid found.
C27_Witness ==
    /\ FormatsNormalized
    /\ call_in.data.shape = "dict"
    /\ call_out.formats = <<Format("unreal-engine", <<File(5)>>)>>
    /\ call_out.looked_up
    /\ call_out.file_uid = Str(5)

\* What C28 says the lookup returns: the first entry with code
\* unreal-engine decides, giving the uid of the first of its files that has
\* one, or none if it has no such file; none without such an entry.
RECURSIVE UnrealFileUidAsStated(_)
UnrealFileUidAsStated(formats) ==
    IF formats = <<>> THEN None
    ELSE IF formats[1].code = "unreal-engine"
        THEN FirstFileWithUid(formats[1].files).uid
    ELSE UnrealFileUidAsStated(Tail(formats))

\* C28 as stated: find_unreal_file_uid returns what the first
\* unreal-engine entry decides.
C28_Original ==
    (call_in.op = "asset_formats" /\ call_out.looked_up) =>
        call_out.file_uid = UnrealFileUidAsStated(call_out.formats)

ManifestEntries(infos) == {k \in 1..Len(infos) : infos[k].type = "manifest"}
FirstManifestEntry(infos) ==
    CHOOSE k \in ManifestEntries(infos) : \A m \in ManifestEntries(infos) : k <= m

\* C29: find_manifest_url returns the downloadUrl of the first entry of
\* type manifest (none if that entry has no downloadUrl), whatever entries
\* come before or after it, and none when no entry is of type manifest.
C29_FirstManifestEntryDecides ==
    (call_in.op = "download_info" /\ call_out.looked_up) =>
        LET infos == call_out.download_info
        IN IF ManifestEntries(infos) = {}
             THEN call_out.manifest_url = None
             ELSE call_out.manifest_url =
                     JsonGet(infos[FirstManifestEntry(infos)].downloadUrl)

\* An entry of another type, then a manifest entry with URL 2, then a
\* manifest entry with URL 1: the lookup returned URL 2.
C29_Witness ==
    /\ call_in.op = "download_info"
    /\ call_out.looked_up
    /\ call_out.download_info =
          <<Info("other", "string", 1), Info("manifest", "string", 2),
            Info("manifest", "string", 1)>>
    /\ call_out.manifest_url = Str(2)

C31_LoadKeepsFileList ==
    (/\ call_in.op = "load"
     /\ call_out.done
     /\ call_in.result.success
     /\ ~call_in.result.file_path.none
     /\ call_in.file.exists
     /\ call_in.file.content.kind = "json_object"
     /\ call_in.file.content.has_list) =>
        /\ ~call_out.raised
        /\ ~call_out.value.none
        /\ Len(call_out.value.files) = Len(call_in.file.content.list)
        /\ \A k \in 1..Len(call_in.file.content.list) :
              /\ call_out.value.files[k].filename = call_in.file.content.list[k].Filename
              /\ call_out.value.files[k].file_hash = call_in.file.content.list[k].FileHash

\* A manifest of two or more files was loaded.
C31_Witness ==
    /\ call_in.op = "load"
    /\ call_out.done
    /\ ~call_out.raised
    /\ call_in.file.content.has_list
    /\ Len(call_in.file.content.list) >= 2
    /\ Len(call_out.value.files) >= 2

\* C32: from the construction of a FabAsyncClient to its close(), whatever
\* the interleaving of the _get_session calls of its tasks, at most one
\* session is created, and every request of the client goes through that
\* session.
C32_OneSharedSession ==
    (/\ call_in.op = "session"
     /\ client = "FabAsyncClient"
     /\ call_out.client_closes = 0) =>
        /\ Len(call_out.sessions) <= 1
        /\ \A r \in call_out.requests : r.session = 1
        /\ \A t \in 1..Len(call_in.kinds) :
              call_out.tpc[t] = "request" => call_out.tsession[t] = call_out.client_session

\* Two tasks of one FabAsyncClient, a pagination walk and a pipeline, have
\* both sent requests and the client was not closed.
C32_Witness ==
    /\ call_in.op = "session"
    /\ client = "FabAsyncClient"
    /\ call_out.client_closes = 0
    /\ Len(call_in.kinds) >= 2
    /\ call_in.kinds[1] = "get_library_pages"
    /\ call_in.kinds[2] = "download_manifest"
    /\ call_out.sent[1] >= 1
    /\ call_out.sent[2] >= 2
    /\ Len(call_out.sessions) = 1

\* C33 as stated: every request goes through a session that is open at the
\* time of the request, whatever the interleaving of close() with the
\* calls in flight and the later calls.
C33_Original ==
    call_in.op = "session" => \A r \in call_out.requests : r.open

\* The notifications of asset i, in the order the callback received them.
Notes(i) == SelectSeq(alog[i], LAMBDA e : e.ev = "note")

StepNotes == <<"Discovering file UID", "Getting download info", "Downloading manifest">>
StageEndpoints == <<"asset-formats", "download-info", "manifest">>

IsFinalNote(e) == e.ev = "note" /\ e.what \in {"completed", "failed"}

\* C34: the notifications of an asset are "starting" first and once, then
\* the step messages in the order of the stages, each request of a stage
\* directly after the step message of that stage, then at most one final
\* notification, behind which nothing is recorded for the asset; an asset
\* whose download_manifest returned a result has its final notification,
\* "completed" exactly for a success and "failed" with the result's error
\* otherwise.
C34_NotificationsFollowStages ==
    on_progress =>
      \A i \in 1..Len(assets) :
        LET L == alog[i]
            N == Notes(i)
        IN /\ L # <<>> => L[1] = Event("note", "starting", "", 0)
           /\ \A k \in 2..Len(N) : N[k].what # "starting"
           /\ \A k \in 2..Len(N) :
                 \/ IsFinalNote(N[k])
                 \/ k - 1 <= 3 /\ N[k].what = StepNotes[k - 1]
           /\ \A k \in 1..Len(L) :
                 L[k].ev = "request" =>
                    /\ k > 1
                    /\ L[k - 1].ev = "note"
                    /\ \E s \in 1..3 : /\ L[k].what = StageEndpoints[s]
                                       /\ L[k - 1].what = StepNotes[s]
           /\ \A k \in 1..Len(L) : IsFinalNote(L[k]) => k = Len(L)
           /\ (task_result[i].set /\ ~task_result[i].raised) =>
                 /\ L # <<>>
                 /\ IsFinalNote(L[Len(L)])
                 /\ (L[Len(L)].what = "completed") <=> task_result[i].success
                 /\ L[Len(L)].what = "failed" =>
                       /\ L[Len(L)].msg = task_result[i].error.msg
                       /\ L[Len(L)].code = task_result[i].error.code
           /\ (L # <<>> /\ IsFinalNote(L[Len(L)])) =>
                 task_result[i].set /\ ~task_result[i].raised

\* One asset of a batch went through all three stages to "completed" and
\* another ended at its first stage with "failed".
C34_Witness ==
    /\ on_progress
    /\ Len(assets) >= 2
    /\ \E i, j \in 1..Len(assets) :
          /\ Len(Notes(i)) = 5
          /\ Notes(i)[5].what = "completed"
          /\ Len(Notes(j)) = 3
          /\ Notes(j)[3].what = "failed"

HasRequest(i) == \E k \in 1..Len(alog[i]) : alog[i][k].ev = "request"

\* C35: the assets receive "starting" in input order; in FabAsyncClient no
\* request of any asset is issued before every asset of the list received
\* "starting"; in FabClient asset i + 1 receives "starting" only after the
\* final notification of asset i.
C35_StartingOrder ==
    on_progress =>
        /\ \A i \in 1..Len(assets) :
              alog[i] # <<>> => alog[i][1] = Event("note", "starting", "", 0)
        /\ \A i \in 1..(Len(assets) - 1) : alog[i + 1] # <<>> => alog[i] # <<>>
        /\ (client = "FabAsyncClient" /\ \E i \in 1..Len(assets) : HasRequest(i)) =>
              \A j \in 1..Len(assets) : alog[j] # <<>>
        /\ client = "FabClient" =>
              \A i \in 1..(Len(assets) - 1) :
                  alog[i + 1] # <<>> => IsFinalNote(alog[i][Len(alog[i])])

\* FabAsyncClient: the last asset of a batch has issued a request while the
\* first has received "starting" and nothing else.
C35_Witness ==
    /\ on_progress
    /\ client = "FabAsyncClient"
    /\ Len(assets) >= 2
    /\ HasRequest(Len(assets))
    /\ Len(alog[1]) = 1

\* The requests and pauses of the assets 1..n of a FabClient batch, in the
\* order of their execution: FabClient runs the assets one after the other.
RECURSIVE BatchRequestsAndPauses(_)
BatchRequestsAndPauses(n) ==
    IF n = 0 THEN <<>> ELSE BatchRequestsAndPauses(n - 1) \o RequestsAndPauses(n)

\* C36 as stated: in the sequential client any two consecutive requests are
\* separated by a pause of rate_limit_delay, the last request of one
\* asset's pipeline and the first request of the next asset's pipeline
\* included.
C36_Original ==
    client = "FabClient" =>
        LET S == BatchRequestsAndPauses(Len(assets))
        IN \A k \in 1..(Len(S) - 1) : ~(S[k] = "request" /\ S[k + 1] = "request")

\* C37: when the fetch of a page fails, get_library raises the error of
\* that fetch (a typed error for a timeout, a connection failure and every
\* 4xx or 5xx status) and returns no Library: the assets of the pages
\* fetched before stay unreturned, and a Library is returned only by a walk
\* none of whose fetches failed.
C37_AllOrNothing ==
    /\ \A k \in 1..Len(answers) :
          LibrarySearchOutcome(client, answers[k]).raised =>
              /\ k = Len(answers)
              /\ pc = "raised"
              /\ error = LibrarySearchOutcome(client, answers[k]).error
              /\ library = <<>>
              /\ derived = <<>>
              /\ (answers[k].kind \in {"timeout", "connection"}
                    \/ RaiseForStatus(answers[k].status)) => error.type \in TypedErrors
    /\ pc = "raised" => library = <<>>
    /\ library # <<>> =>
          /\ library[1].assets = all_assets
          /\ \A k \in 1..Len(answers) : ~LibrarySearchOutcome(client, answers[k]).raised

\* A walk failed at a later page after pages with assets had been fetched.
C37_Witness ==
    /\ pc = "raised"
    /\ Len(yielded) >= 1
    /\ all_assets # <<>>
    /\ library = <<>>
    /\ error.type \in TypedErrors

CountOf(method) ==
    Len(SelectSeq(call_out.calls, LAMBDA c : c = method))

\* C38 as stated, for a callback none of whose methods raises: once
\* on_start was called, a FabClient.download_asset call that returned has
\* invoked exactly one of on_complete and on_error, on_complete only with
\* a returned result that is a success and on_error only with a returned
\* result that is a failure.
C38_Original ==
    (/\ call_in.op = "download_asset"
     /\ client = "FabClient"
     /\ call_in.raises_in = ""
     /\ call_out.done
     /\ call_out.result.set
     /\ CountOf("on_start") > 0) =>
        /\ CountOf("on_complete") + CountOf("on_error") = 1
        /\ CountOf("on_complete") = 1 => (call_out.result.set /\ call_out.result.success)
        /\ CountOf("on_error") = 1 => (call_out.result.set /\ ~call_out.result.success)

\* The manifests of the assets whose download_manifest call returned, in
\* input order.
SucceededManifests ==
    LET idx == SelectSeq([k \in 1..Len(call_out.outcomes) |-> k],
                         LAMBDA k : ~call_out.outcomes[k].raised)
    IN [j \in 1..Len(idx) |-> ManifestOf(call_in.assets[idx[j]])]

\* C39: the earlier client's download_manifests, called without a progress
\* callback, never raises, goes on with the next asset after an asset's
\* exception, and returns the manifests of exactly the assets whose
\* pipeline succeeded, in input order: a list shorter than the input when
\* an asset failed.
C39_LegacySwallowsExceptions ==
    (call_in.op = "legacy_download_manifests" /\ ~call_in.on_progress) =>
        /\ ~call_out.raised
        /\ Len(call_out.outcomes) = call_out.next - 1
        /\ (~call_out.done /\ call_out.next <= Len(call_in.assets)) =>
              ENABLED LegacyNextAsset
        /\ call_out.done =>
              /\ Len(call_out.outcomes) = Len(call_in.assets)
              /\ call_out.returned = SucceededManifests
              /\ (\E k \in 1..Len(call_out.outcomes) : call_out.outcomes[k].raised)
                    => Len(call_out.returned) < Len(call_in.assets)

\* The first asset of a batch failed, a later one succeeded, and the call
\* returned the later one's manifest alone.
C39_Witness ==
    /\ call_in.op = "legacy_download_manifests"
    /\ ~call_in.on_progress
    /\ call_out.done
    /\ Len(call_in.assets) >= 2
    /\ call_out.outcomes[1].raised
    /\ ~call_out.outcomes[2].raised
    /\ Len(call_out.returned) = Len(call_in.assets) - 1

\* The raw_data of the assets and listings of every to_assets call so far
\* are the raw results and the raw listings of the page.
RawDataKept ==
    call_in.op = "to_assets" =>
        \A c \in 1..Len(call_out.outs) :
            ~call_out.outs[c].raised =>
                /\ Len(call_out.outs[c].assets) = Len(call_in.results)
                /\ \A k \in 1..Len(call_in.results) :
                      LET asset == call_out.outs[c].assets[k]
                      IN /\ asset.raw_data = call_in.results[k]
                         /\ ~asset.listing.none =>
                               asset.listing.raw_data = call_in.results[k].listing

\* C40: no to_assets call changes the results of the page, and the raw_data
\* of every Asset and Listing it returned equals the raw object it was made
\* from, after any number of calls.
C40_RawPayloadUnchanged ==
    /\ []RawDataKept
    /\ [][call_in.op = "to_assets" => call_in' = call_in]_vars

\* The page was normalized a second time and an asset with a listing that
\* has tags holds its raw result and its raw listing.
C40_Witness ==
    /\ call_in.op = "to_assets"
    /\ Len(call_out.outs) >= 2
    /\ ~call_out.outs[1].raised
    /\ ~call_out.outs[1].assets[1].listing.none
    /\ Len(call_in.results[1].listing.tags.items) >= 1
    /\ call_out.outs[1].assets[1].raw_data = call_in.results[1]
    /\ call_out.outs[1].assets[1].listing.raw_data = call_in.results[1].listing

====
